---- MODULE Spec2Model ----
(***************************************************************************)
(* diagram-mcp: the render-request lifecycle of the Mermaid and Plotly     *)
(* renderers (src/src/mermaid-service.ts, src/src/services/                *)
(* plotly-service.ts), the two tool adapters (src/src/tools/               *)
(* render-diagram.ts, renderPlotlyTool in plotly-service.ts), the output   *)
(* router (src/unnamed/part_004) and FileManager (src/src/utils/           *)
(* file-manager.ts).                                                       *)
(*                                                                         *)
(* Every async function is cut at its awaits: one action per segment that  *)
(* runs between two suspension points.  The rendering engine (puppeteer)   *)
(* and the file system are external; each of their operations completes    *)
(* with one of the outcomes it can produce, chosen nondeterministically.   *)
(*                                                                         *)
(* Text is a TLA+ string, a buffer a sequence of bytes, an optional value  *)
(* v is <<>> (undefined) or <<v>>.                                         *)
(***************************************************************************)
EXTENDS Integers, Sequences, FiniteSets, TLC

\* ------------------------------------------------------------------ bounds

\* Number of calls (invocations of an entry point) in one behaviour.
MaxCalls == 2

\* The entries an earlier run left in the temp directory: at most MaxEntries.
MaxEntries == 2

Calls == 1..MaxCalls

\* ------------------------------------------------------- optional values

Undefined == <<>>

Some(v) == <<v>>

IsDef(o) == o # <<>>

Val(o) == o[1]

\* ---------------------------------------------------------------- text

\* The characters String.prototype.trim() strips (ECMAScript WhiteSpace and
\* LineTerminator) among those a string of this module can hold: space, TAB,
\* LF, FF, CR, and, written as the characters themselves, VT (U+000B), NBSP
\* (U+00A0), ZWNBSP (U+FEFF) and U+1680.  The others (U+2000..U+200A, U+2028,
\* U+2029, U+202F, U+205F, U+3000) occur in no string here.
WhiteSpace ==
    {" ", "\t", "\n", "\f", "\r", "", " ", "﻿", " "}

\* String.prototype.trimStart()
RECURSIVE TrimStart(_)
TrimStart(s) ==
    IF Len(s) = 0 THEN s
    ELSE IF SubSeq(s, 1, 1) \in WhiteSpace
         THEN TrimStart(SubSeq(s, 2, Len(s))) ELSE s

\* String.prototype.trimEnd()
RECURSIVE TrimEnd(_)
TrimEnd(s) ==
    IF Len(s) = 0 THEN s
    ELSE IF SubSeq(s, Len(s), Len(s)) \in WhiteSpace
         THEN TrimEnd(SubSeq(s, 1, Len(s) - 1)) ELSE s

\* String.prototype.trim()
Trim(s) == TrimEnd(TrimStart(s))

\* String.prototype.includes
Includes(s, needle) ==
    \E i \in 1..(Len(s) - Len(needle) + 1) :
        SubSeq(s, i, i + Len(needle) - 1) = needle

\* String.prototype.startsWith
StartsWith(s, p) == Len(s) >= Len(p) /\ SubSeq(s, 1, Len(p)) = p

\* String.prototype.endsWith
EndsWith(s, p) ==
    Len(s) >= Len(p) /\ SubSeq(s, Len(s) - Len(p) + 1, Len(s)) = p

\* ---------------------------------------------------------------- base64

B64Alphabet ==
    "ABCDEFGHIJKLMNOPQRSTUVWXYZabcdefghijklmnopqrstuvwxyz0123456789+/"

\* The character of a 6-bit value.
B64Char(i) == SubSeq(B64Alphabet, i + 1, i + 1)

\* Buffer.prototype.toString('base64')
RECURSIVE Base64Encode(_)
Base64Encode(b) ==
    IF Len(b) = 0 THEN ""
    ELSE IF Len(b) = 1 THEN
        B64Char(b[1] \div 4) \o B64Char((b[1] % 4) * 16) \o "=="
    ELSE IF Len(b) = 2 THEN
        B64Char(b[1] \div 4) \o B64Char((b[1] % 4) * 16 + b[2] \div 16)
            \o B64Char((b[2] % 16) * 4) \o "="
    ELSE
        B64Char(b[1] \div 4) \o B64Char((b[1] % 4) * 16 + b[2] \div 16)
            \o B64Char((b[2] % 16) * 4 + b[3] \div 64) \o B64Char(b[3] % 64)
            \o Base64Encode(SubSeq(b, 4, Len(b)))

\* The 6-bit value of a character, -1 for a character outside the alphabet
\* (Node also accepts the URL-safe '-' and '_').
B64Index(ch) ==
    IF \E i \in 1..64 : SubSeq(B64Alphabet, i, i) = ch
    THEN (CHOOSE i \in 1..64 : SubSeq(B64Alphabet, i, i) = ch) - 1
    ELSE IF ch = "-" THEN 62 ELSE IF ch = "_" THEN 63 ELSE -1

\* The 6-bit values of a text's base64 characters up to the first '=':
\* Node skips characters outside the alphabet and stops at the padding.
RECURSIVE B64Sextets(_)
B64Sextets(s) ==
    IF Len(s) = 0 THEN <<>>
    ELSE IF SubSeq(s, 1, 1) = "=" THEN <<>>
    ELSE IF B64Index(SubSeq(s, 1, 1)) < 0 THEN B64Sextets(SubSeq(s, 2, Len(s)))
    ELSE <<B64Index(SubSeq(s, 1, 1))>> \o B64Sextets(SubSeq(s, 2, Len(s)))

RECURSIVE B64Bytes(_)
B64Bytes(x) ==
    IF Len(x) < 2 THEN <<>>
    ELSE IF Len(x) = 2 THEN << x[1] * 4 + x[2] \div 16 >>
    ELSE IF Len(x) = 3 THEN
        << x[1] * 4 + x[2] \div 16, (x[2] % 16) * 16 + x[3] \div 4 >>
    ELSE
        << x[1] * 4 + x[2] \div 16, (x[2] % 16) * 16 + x[3] \div 4,
           (x[3] % 4) * 64 + x[4] >> \o B64Bytes(SubSeq(x, 5, Len(x)))

\* Buffer.from(text, 'base64')
Base64Decode(s) == B64Bytes(B64Sextets(s))

\* -------------------------------------------------------------- requests

\* z.enum(['svg', 'png', 'jpg', 'pdf'])
Formats == {"svg", "png", "jpg", "pdf"}

\* z.enum(['default', 'base', 'dark', 'forest', 'neutral', 'null'])
Themes == {"default", "base", "dark", "forest", "neutral", "null"}

\* z.enum(['link', 'filepath', 'raw'])
OutputTypes == {"link", "filepath", "raw"}

\* The entry points a caller can invoke: the two tool adapters, the
\* conversion tool, the output router, and the renderers' own methods
\* (the render methods, initialize() and cleanup()).
Kinds ==
    {"renderDiagramTool", "renderPlotlyTool", "convertToImageTool",
     "renderDiagram", "convertToImage", "renderPlotly", "handleRenderOutput",
     "mermaidInitialize", "plotlyInitialize",
     "mermaidCleanup", "plotlyCleanup"}

\* cleanup() of MermaidService and of PlotlyService.
IsCleanup(kind) == kind \in {"mermaidCleanup", "plotlyCleanup"}

IsTool(kind) == kind \in {"renderDiagramTool", "renderPlotlyTool"}

IsRender(kind) == kind \in {"renderDiagram", "convertToImage", "renderPlotly"}

\* The renderer instances: the module-private `mermaidService` of the
\* diagram adapter, the module-private `plotlyService` of the chart adapter,
\* the module-private `mermaidService` of the conversion tool, and the
\* MermaidService and the PlotlyService a direct caller constructs.
Services == {"mermaidTool", "plotlyTool", "convertTool", "mermaid", "plotly"}

\* The renderer instance behind an entry point: an adapter's instance is
\* reachable through its execute only.
ServiceOf(kind) ==
    CASE kind = "renderDiagramTool" -> "mermaidTool"
      [] kind = "renderPlotlyTool" -> "plotlyTool"
      [] kind = "convertToImageTool" -> "convertTool"
      [] kind \in {"renderPlotly", "plotlyInitialize", "plotlyCleanup"} -> "plotly"
      [] OTHER -> "mermaid"

\* The render method an entry point runs.
MethodOf(kind) ==
    CASE kind = "renderDiagramTool" -> "renderDiagram"
      [] kind = "renderPlotlyTool" -> "renderPlotly"
      [] kind = "convertToImageTool" -> "convertToImage"
      [] OTHER -> kind

\* A request with every option at the value the schema gives it when the
\* caller leaves it out (code is mermaidCode or plotlyCode; data is the
\* payload a direct caller of the output router passes; present says that
\* the caller passed an object at all).
MermaidBase ==
    [present |-> TRUE,
     code |-> "graph TD", format |-> "svg", theme |-> "default",
     quality |-> Undefined, width |-> Undefined, height |-> Undefined,
     fontSize |-> Undefined, maxTextSize |-> Undefined,
     output |-> Undefined, filePath |-> Undefined, data |-> Undefined]

PlotlyBase == [MermaidBase EXCEPT !.code = "Plotly.newPlot('plotly-chart')"]

\* An entry point called without its params or request (undefined): there
\* is no object, and reading a property of it throws a TypeError.
NoParams == [MermaidBase EXCEPT !.present = FALSE]

\* Requests that differ from a valid one in a single option, the option
\* being outside what the schema allows.
Faulty(base) ==
    {[base EXCEPT !.code = s] : s \in {"", "  ", "\n", " \t "}}
    \cup {[base EXCEPT !.format = "gif"]}
    \cup {[base EXCEPT !.quality = Some(q), !.format = "jpg"] : q \in {0, 101}}
    \cup {[base EXCEPT !.width = Some(0), !.format = "png"],
          [base EXCEPT !.height = Some(0), !.format = "png"]}

\* Valid requests: every format with every delivery mode, and sized or
\* quality-controlled raster requests.
Valid(base) ==
    {[base EXCEPT !.format = f, !.output = o] :
        f \in Formats,
        o \in {Undefined} \cup {Some(t) : t \in OutputTypes}}
    \cup {[base EXCEPT !.format = "png", !.width = Some(64), !.output = Some("raw")],
          [base EXCEPT !.format = "jpg", !.quality = Some(90), !.output = Some("raw")]}

\* Requests whose delivery mode is outside the enum ('' is a string the
\* diagram adapter's `params.output || 'link'` replaces).
BadOutput(base) ==
    {[base EXCEPT !.output = Some(o), !.format = f] :
        o \in {"inline", ""}, f \in {"svg", "png"}}

MermaidRequests ==
    Valid(MermaidBase) \cup Faulty(MermaidBase) \cup BadOutput(MermaidBase)
    \cup {[MermaidBase EXCEPT !.theme = "neon"],
          [MermaidBase EXCEPT !.fontSize = Some(0)],
          [MermaidBase EXCEPT !.maxTextSize = Some(0)]}

PlotlyRequests ==
    Valid(PlotlyBase) \cup Faulty(PlotlyBase) \cup BadOutput(PlotlyBase)
    \cup {[PlotlyBase EXCEPT !.code = "Plotly.newPlot('chart')", !.format = f] :
            f \in {"svg", "png"}}
    \cup {[PlotlyBase EXCEPT !.format = "png", !.filePath = Some("/home/out"),
                             !.output = Some("raw")]}

\* The RenderParams a caller passes to the output router: a payload, a
\* format (any string) and a delivery mode; '' is no payload and '===='
\* one that decodes to an empty buffer.
RouterParams ==
    {[MermaidBase EXCEPT !.code = "", !.data = Some(df[1]), !.format = df[2],
                         !.output = o] :
        df \in {<<"<svg/>", "svg">>, <<"iVBORw==", "png">>,
                <<"/9g=", "jpeg">>, <<"Qk0=", "bmp">>},
        o \in {Undefined} \cup {Some(t) : t \in OutputTypes}}
    \cup {[MermaidBase EXCEPT !.code = "", !.data = Some(""), !.format = "png"]}
    \cup {[MermaidBase EXCEPT !.code = "", !.data = Some("===="), !.format = "png",
                              !.output = Some(t)] : t \in {"link", "filepath"}}

\* The options a render method reads: a direct call of one leaves the
\* delivery mode out.
Rendered(reqs) == {r \in reqs : r.output = Undefined}

\* The requests a caller sends to an entry point.
Requests(kind) ==
    CASE kind = "renderDiagramTool" -> MermaidRequests \cup {NoParams}
      [] kind = "renderPlotlyTool" -> PlotlyRequests \cup {NoParams}
      [] kind = "handleRenderOutput" -> RouterParams
      [] kind = "renderPlotly" ->
            Rendered(PlotlyRequests)
            \cup {[PlotlyBase EXCEPT !.format = "png", !.filePath = Some("/home/out")]}
            \cup {NoParams}
      [] kind = "convertToImage" ->
            Rendered(MermaidRequests)
            \cup {[MermaidBase EXCEPT !.format = f, !.quality = Some(90)] :
                    f \in {"jpg", "png"}}
            \cup {NoParams}
      [] kind = "renderDiagram" -> Rendered(MermaidRequests) \cup {NoParams}
      [] kind = "convertToImageTool" ->
            {[MermaidBase EXCEPT !.format = f] : f \in {"png", "jpg", "pdf"}}
            \cup {[MermaidBase EXCEPT !.format = "png", !.quality = Some(90)]}
            \cup {NoParams}
      [] OTHER -> {}

\* Plain requests: the ones the calls before the last call of a behaviour
\* send (a tool call delivered as a link, a direct render call).
PlainRequests(kind) ==
    IF kind = "renderDiagramTool" THEN {MermaidBase}
    ELSE IF kind = "renderPlotlyTool" THEN {PlotlyBase}
    ELSE {}

\* --------------------------------------------------------------- results

\* DiagramResult (src/src/types.ts): data, error, size and output_type are
\* optional.  data is a tagged value: the payload text, a file path or a URL.
Payload(text) == [tag |-> "payload", text |-> text]

Failure(message, format) ==
    [success |-> FALSE, data |-> Undefined, error |-> Some(message),
     format |-> format, size |-> Undefined, output_type |-> Undefined]

Success(data, format, size, outputType) ==
    [success |-> TRUE, data |-> Some(data), error |-> Undefined,
     format |-> format, size |-> size, output_type |-> outputType]

\* How a call's promise settles.
Resolved(value) == [settled |-> "resolved", value |-> value]

Rejected(message) ==
    [settled |-> "rejected", value |-> Failure(message, "")]

NoOutcome == [settled |-> "pending", value |-> Failure("", "")]

\* What a Promise<void> resolves with.
Void == Failure("", "")

\* ----------------------------------------------------------- validation

\* The first assertion of renderDiagramTool.execute that fails on params,
\* as its message; Undefined when all hold.
DiagramToolAssert(p) ==
    IF ~p.present THEN Some("Parameters are required")
    ELSE IF p.code = "" THEN Some("Mermaid code is required")
    ELSE IF Len(Trim(p.code)) = 0 THEN Some("Mermaid code cannot be empty")
    ELSE IF p.format \notin Formats THEN Some("Invalid format: " \o p.format)
    ELSE IF p.theme \notin Themes THEN Some("Invalid theme: " \o p.theme)
    ELSE IF IsDef(p.quality) /\ ~(Val(p.quality) >= 1 /\ Val(p.quality) <= 100)
        THEN Some("Quality must be between 1 and 100, got: " \o ToString(Val(p.quality)))
    ELSE IF IsDef(p.width) /\ ~(Val(p.width) > 0)
        THEN Some("Width must be positive, got: " \o ToString(Val(p.width)))
    ELSE IF IsDef(p.height) /\ ~(Val(p.height) > 0)
        THEN Some("Height must be positive, got: " \o ToString(Val(p.height)))
    ELSE IF IsDef(p.fontSize) /\ ~(Val(p.fontSize) > 0)
        THEN Some("Font size must be positive, got: " \o ToString(Val(p.fontSize)))
    ELSE IF IsDef(p.maxTextSize) /\ ~(Val(p.maxTextSize) > 0)
        THEN Some("Max text size must be positive, got: " \o ToString(Val(p.maxTextSize)))
    ELSE Undefined

\* The first assertion of renderPlotlyTool.execute that fails on params.
PlotlyToolAssert(p) ==
    IF ~p.present THEN Some("Parameters are required")
    ELSE IF p.code = "" THEN Some("Plotly code is required")
    ELSE IF Len(Trim(p.code)) = 0 THEN Some("Plotly code cannot be empty")
    ELSE IF p.format \notin Formats THEN Some("Invalid format: " \o p.format)
    ELSE IF IsDef(p.quality) /\ ~(Val(p.quality) >= 1 /\ Val(p.quality) <= 100)
        THEN Some("Quality must be between 1 and 100, got: " \o ToString(Val(p.quality)))
    ELSE IF IsDef(p.width) /\ ~(Val(p.width) > 0)
        THEN Some("Width must be positive, got: " \o ToString(Val(p.width)))
    ELSE IF IsDef(p.height) /\ ~(Val(p.height) > 0)
        THEN Some("Height must be positive, got: " \o ToString(Val(p.height)))
    ELSE Undefined

\* The assertions of PlotlyService.renderPlotly that run before initialize().
PlotlyPreAssert(r) ==
    IF ~r.present THEN Some("Request is required")
    ELSE IF r.code = "" THEN Some("Plotly code is required")
    ELSE IF Len(Trim(r.code)) = 0 THEN Some("Plotly code cannot be empty")
    ELSE IF r.format \notin Formats THEN Some("Invalid format: " \o r.format)
    ELSE Undefined

\* The assertions of PlotlyService.renderPlotly that run after initialize()
\* and before the page is opened.
PlotlyPostAssert(r) ==
    IF IsDef(r.width) /\ ~(Val(r.width) > 0)
        THEN Some("Width must be positive, got: " \o ToString(Val(r.width)))
    ELSE IF IsDef(r.height) /\ ~(Val(r.height) > 0)
        THEN Some("Height must be positive, got: " \o ToString(Val(r.height)))
    ELSE IF IsDef(r.quality) /\ ~(Val(r.quality) >= 1 /\ Val(r.quality) <= 100)
        THEN Some("Quality must be between 1 and 100, got: " \o ToString(Val(r.quality)))
    ELSE Undefined

\* ---------------------------------------------------------- configuration

\* config.serverPort (the module config.js; default of the listen port).
ServerPort == 8099

\* config.staticDir, which FileManager takes as TEMP_DIR.
TEMP_DIR == "/srv/static"

\* The values of config.allowedDirs a process can be started with.
AllowLists ==
    {<<>>, <<"/srv/static">>, <<"/var/data", "/opt/out">>, <<"/srv/stat">>}

\* path.join of a directory and a file name.
Join(dir, name) == dir \o "/" \o name

\* ------------------------------------------------------------ the engine

\* The DOM a poll can observe: the completed-render marker ('.mermaid svg',
\* '#plotly-chart .plotly'), the error marker and its text.
DomStates ==
    {[chart |-> ch, error |-> FALSE, errorText |-> ""] : ch \in BOOLEAN}
    \cup {[chart |-> ch, error |-> TRUE, errorText |-> "Syntax error in text"] :
            ch \in BOOLEAN}
    \cup {[chart |-> FALSE, error |-> TRUE, errorText |-> ""]}

\* How a waitForFunction ends: the page evaluated the predicate on a DOM,
\* the page never answered within the timeout, or the engine failed.
PollOutcomes ==
    {[how |-> "evaluated", dom |-> Some(d)] : d \in DomStates}
    \cup {[how |-> "hung", dom |-> Undefined],
          [how |-> "failed", dom |-> Undefined]}

\* What elementHandle.boundingBox() can give: null or a box.
Boxes ==
    {Undefined}
    \cup {Some([x |-> 20, y |-> 20, width |-> w, height |-> h]) :
            <<w, h>> \in {<<0, 40>>, <<120, 0>>, <<120, 40>>}}

\* The bytes the engine captures, by kind of capture.
CaptureBytes(type) ==
    CASE type = "png" -> <<137, 80, 78, 71>>
      [] type = "jpeg" -> <<255, 216>>
      [] OTHER -> <<37, 80, 68>>

\* element.outerHTML of the rendered svg element.
SvgMarkup == "<svg/>"

\* The message of an engine (browser driver) failure.
EngineError == "Protocol error: Target closed"

LaunchError == "Failed to launch the browser process"

\* waitForFunction's timeout in MermaidService, in milliseconds.
MermaidPollTimeout == 10000

\* waitForFunction's timeout in PlotlyService, in milliseconds.
PlotlyPollTimeout == 15000

\* The JPEG quality PlotlyService passes when the request gives none.
DefaultQuality == 90

\* puppeteer's TimeoutError message.
TimeoutError(ms) == "Waiting failed: " \o ToString(ms) \o "ms exceeded"

\* `a || b` on an optional number.
OrElse(opt, dflt) == IF IsDef(opt) /\ Val(opt) # 0 THEN Val(opt) ELSE dflt

\* ----------------------------------------------------------------- state

\* An engine and a page are named by the call whose launch() or newPage()
\* created them: a call launches at most one engine and opens at most one
\* page.
VARIABLES
    browser,      \* [Services -> Nat]: this.browser, 0 for null, else an engine
    engines,      \* the engines launched and not closed: a set of [id, service]
    pages,        \* the open pages: a set of [id, engine]
    files,        \* the files on disk: a set of [path, content]
    allowedDirs,  \* config.allowedDirs
    proc,         \* the process: main(), the startup purge, the listener
    call          \* [Calls -> the call's record]

vars == <<browser, engines, pages, files, allowedDirs, proc, call>>

env == <<browser, engines, pages, files, allowedDirs, proc>>

\* A file's content: text written as utf8, or a buffer's bytes.
Text(s) == [enc |-> "utf8", text |-> s, bytes |-> <<>>]

Bytes(b) == [enc |-> "binary", text |-> "", bytes |-> b]

\* fs.writeFile: creates the file or replaces its content.
WriteFile(fs, path, content) ==
    {f \in fs : f.path # path} \cup {[path |-> path, content |-> content]}

\* A call that has not started.
NoCall ==
    [pc |-> "idle", kind |-> "", req |-> MermaidBase, engine |-> 0,
     page |-> 0, saw |-> Undefined, box |-> Undefined,
     shot |-> [type |-> "", quality |-> Undefined, width |-> 0, height |-> 0,
               path |-> Undefined],
     pending |-> Failure("", ""), content |-> Text(""), filename |-> "",
     mode |-> "", ops |-> {}, touched |-> {}, result |-> Undefined,
     out |-> NoOutcome]

\* ------------------------------------------------- settling and catching

\* The call runs on a PlotlyService (else on a MermaidService).
IsPlotly(cr) == ServiceOf(cr.kind) \in {"plotlyTool", "plotly"}

\* The call's promise resolves with value.
Settle(cr, value) == [cr EXCEPT !.pc = "done", !.out = Resolved(value)]

\* The call issues the operation op and suspends at pc until it completes.
Issue(cr, pc, op) == [cr EXCEPT !.pc = pc, !.ops = @ \cup {op}]

ToolPrefix(kind) ==
    IF kind = "renderDiagramTool" THEN "Failed to render diagram: "
    ELSE "Failed to render Plotly chart: "

\* The catch block of a tool adapter's execute: it reads params.format,
\* for its log line and for the result; without params that read throws
\* inside the catch block, and execute rejects with the TypeError.
ToolCatch(cr, message) ==
    IF ~cr.req.present
    THEN [cr EXCEPT !.pc = "done",
                    !.out = Rejected("Cannot read properties of undefined (reading 'format')")]
    ELSE Settle(cr, Failure(ToolPrefix(cr.kind) \o message, cr.req.format))

\* An exception during delivery: inside an adapter's try block it reaches
\* the catch block; a direct caller of the router gets a rejected promise.
Raise(cr, message) ==
    IF IsTool(cr.kind) THEN ToolCatch(cr, message)
    ELSE [cr EXCEPT !.pc = "done", !.out = Rejected(message)]

\* ------------------------------------------------------------- delivery

\* The assertions of FileManager.saveTempFile that run before its first
\* await, as the message of the first that fails.
SaveTempFileAssert(content, format) ==
    IF content.enc = "utf8" /\ content.text = "" THEN Some("Data is required")
    ELSE IF format = "" THEN Some("Format is required")
    ELSE IF Len(Trim(format)) = 0 THEN Some("Format cannot be empty")
    ELSE IF format \notin {"svg", "png", "jpg", "jpeg", "pdf"}
        THEN Some("Invalid format: " \o format)
    ELSE IF content.enc = "binary" /\ Len(content.bytes) = 0
        THEN Some("Buffer data cannot be empty")
    ELSE Undefined

\* FileManager.saveTempFile up to `await this.ensureTempDir()`; a failed
\* assertion rejects the promise the adapter awaits inside its try block.
saveTempFile(cr, content, format, mode) ==
    IF IsDef(SaveTempFileAssert(content, format))
    THEN Raise(cr, Val(SaveTempFileAssert(content, format)))
    ELSE Issue([cr EXCEPT !.content = content, !.mode = mode], "mkdir", "mkdir")

\* FileManager.validateAllowedPath (path.resolve leaves an absolute,
\* normalised path as it is).
validateAllowedPath(filePath, dirs) ==
    IF Len(dirs) = 0 THEN TRUE
    ELSE \E i \in 1..Len(dirs) : StartsWith(filePath, dirs[i])

\* Array.prototype.join(', ')
RECURSIVE JoinList(_)
JoinList(dirs) ==
    IF Len(dirs) = 0 THEN ""
    ELSE IF Len(dirs) = 1 THEN dirs[1]
    ELSE dirs[1] \o ", " \o JoinList(Tail(dirs))

\* The delivery inlined in renderDiagramTool.execute, from `const output`
\* to its first await or its return.
DiagramToolDeliver(cr, res) ==
    LET p == cr.req
        data == Val(res.data).text
        output == IF IsDef(p.output) /\ Val(p.output) # ""
                  THEN Val(p.output) ELSE "link"
    IN  IF output \notin OutputTypes
            THEN ToolCatch(cr, "Invalid output type: " \o output)
        ELSE IF output = "filepath"
            THEN saveTempFile(cr, Text(data), p.format, "filepath")
        ELSE IF output = "link" /\ p.format \in {"png", "jpg", "pdf", "svg"}
            THEN IF p.format \in {"png", "jpg", "pdf"}
                 THEN IF Len(Base64Decode(data)) = 0
                      THEN ToolCatch(cr, "Base64 data must not be empty")
                      ELSE saveTempFile(cr, Bytes(Base64Decode(data)), p.format, "link")
                 ELSE IF ~StartsWith(data, "<svg")
                      THEN ToolCatch(cr, "SVG data must start with <svg")
                      ELSE saveTempFile(cr, Text(data), p.format, "link")
        ELSE Settle(cr, Success(Payload(data), res.format, res.size, Some("raw")))

\* A router that saves the payload to a temp file in every mode.
handleRenderOutputSaving(cr, res) ==
    saveTempFile(cr, Text(Val(res.data).text), res.format, "link")

\* A router that returns the payload itself in every mode.
handleRenderOutputRaw(cr, res) ==
    Settle(cr, Success(Payload(Val(res.data).text), res.format, res.size, Some("raw")))

\* handleRenderOutput (the output router), up to its first await or return.
handleRenderOutput(cr, res) ==
    LET data == Val(res.data).text
        format == res.format
        output == IF IsDef(cr.req.output) THEN Val(cr.req.output) ELSE "link"
    IN  IF data = "" THEN Raise(cr, "Data is required")
        ELSE IF format = "" THEN Raise(cr, "Format is required")
        ELSE IF output \notin OutputTypes
            THEN Raise(cr, "Invalid output type: " \o output)
        ELSE IF output = "filepath"
            THEN saveTempFile(cr, Text(data), format, "filepath")
        ELSE IF output = "link" /\ format \in {"png", "jpg", "pdf", "svg"}
            THEN IF format \in {"png", "jpg", "pdf"}
                 THEN IF Len(Base64Decode(data)) = 0
                      THEN Raise(cr, "Base64 data must not be empty")
                      ELSE saveTempFile(cr, Bytes(Base64Decode(data)), format, "link")
                 ELSE IF ~StartsWith(data, "<svg")
                      THEN Raise(cr, "SVG data must start with <svg")
                      ELSE saveTempFile(cr, Text(data), format, "link")
        ELSE Settle(cr, Success(Payload(data), format, res.size, Some("raw")))

\* renderDiagramTool.execute after `await mermaidService.renderDiagram`.
DiagramToolAfterRender(cr, res) ==
    IF ~res.success
    THEN IF ~IsDef(res.error) \/ Val(res.error) = ""
         THEN ToolCatch(cr, "Failed result must have error message")
         ELSE Settle(cr, Failure(Val(res.error), res.format))
    ELSE IF ~IsDef(res.data) \/ Val(res.data).text = ""
         THEN ToolCatch(cr, "Successful result must have data")
    ELSE IF res.format = "" THEN ToolCatch(cr, "Result must have format")
    ELSE DiagramToolDeliver([cr EXCEPT !.pending = res], res)

\* renderPlotlyTool.execute after `await plotlyService.renderPlotly`.
PlotlyToolAfterRender(cr, res) ==
    IF ~res.success
    THEN IF ~IsDef(res.error) \/ Val(res.error) = ""
         THEN ToolCatch(cr, "Failed result must have error message")
         ELSE Settle(cr, Failure(Val(res.error), res.format))
    ELSE IF ~IsDef(res.data) \/ Val(res.data).text = ""
         THEN ToolCatch(cr, "Successful result must have data")
    ELSE IF res.format = "" THEN ToolCatch(cr, "Result must have format")
    ELSE handleRenderOutput([cr EXCEPT !.pending = res], res)

\* convertToImageTool.execute after `await mermaidService.convertToImage`:
\* a failure result is thrown and rethrown by the catch block, so the
\* promise rejects; a success is returned without a delivery.
ConvertToolAfterRender(cr, res) ==
    IF ~res.success
    THEN [cr EXCEPT !.pc = "done",
                    !.out = Rejected("Failed to convert diagram to image: "
                        \o (IF IsDef(res.error) /\ Val(res.error) # ""
                            THEN Val(res.error)
                            ELSE "Failed to convert diagram to image"))]
    ELSE Settle(cr, Success(Val(res.data), res.format, res.size, Undefined))

\* The format the delivery names the file by: params.format in the diagram
\* adapter, the result's format in the router.
SaveFormat(cr) ==
    IF cr.kind = "renderDiagramTool" THEN cr.req.format ELSE cr.pending.format

\* A link to the root of the listener, where express.static is not mounted.
LocalhostUrlAtRoot(filename) ==
    "http://localhost:" \o ToString(ServerPort) \o "/" \o filename

\* `http://localhost:${config.serverPort}/static/${filename}`
LocalhostUrl(filename) ==
    "http://localhost:" \o ToString(ServerPort) \o "/static/" \o filename

\* saveTempFile after ensureTempDir, with the generated name: the allow-list
\* check, then the write is issued.
AfterEnsureTempDir(cr, filename, dirs) ==
    IF ~validateAllowedPath(Join(TEMP_DIR, filename), dirs)
    THEN Raise(cr, "File path " \o Join(TEMP_DIR, filename)
                        \o " is not in allowed directories: " \o JoinList(dirs))
    ELSE Issue([cr EXCEPT !.filename = filename], "saveWrite", "writeFile")

\* The delivery after saveTempFile returned the file name.
AfterSaveTempFile(cr) ==
    LET res == cr.pending
        data == Val(res.data).text
    IN  IF cr.mode = "link"
        THEN Settle(cr, Success([tag |-> "url", text |-> LocalhostUrl(cr.filename)],
                                res.format, res.size, Some("link")))
        ELSE IF SaveFormat(cr) \in {"svg", "pdf"}
            THEN Issue([cr EXCEPT !.content = Text(data)], "adapterWrite", "writeFile")
        ELSE IF Len(Base64Decode(data)) = 0
            THEN Raise(cr, "Base64 data must not be empty")
        ELSE Issue([cr EXCEPT !.content = Bytes(Base64Decode(data))],
                   "adapterWrite", "writeFile")

\* The filepath delivery after its own writeFile.
AfterAdapterWrite(cr) ==
    Settle(cr, Success([tag |-> "path", text |-> Join(TEMP_DIR, cr.filename)],
                       cr.pending.format, cr.pending.size, Some("filepath")))

\* ------------------------------------------------------------ renderers

\* The result a render method's catch block returns.
RenderFailure(cr, message) == Failure(message, cr.req.format)

\* The render method returns res: to the caller of a direct call, to the
\* adapter's continuation of a tool call.
Finish(cr, res) ==
    LET returned == [cr EXCEPT !.result = Some(res)]
    IN  IF cr.kind = "renderDiagramTool" THEN DiagramToolAfterRender(returned, res)
        ELSE IF cr.kind = "renderPlotlyTool" THEN PlotlyToolAfterRender(returned, res)
        ELSE IF cr.kind = "convertToImageTool" THEN ConvertToolAfterRender(returned, res)
        ELSE Settle(returned, res)

\* An exception inside the render method's try block: the catch block
\* returns a failure that carries request.format.  Without a request that
\* read throws inside the catch block and the render method rejects with
\* the TypeError, which the catch block of convertToImageTool.execute
\* wraps in its own Error.
Throw(cr, message) ==
    IF cr.req.present THEN Finish(cr, RenderFailure(cr, message))
    ELSE [cr EXCEPT !.pc = "done",
                    !.out = Rejected(
                        (IF cr.kind = "convertToImageTool"
                         THEN "Failed to convert diagram to image: " ELSE "")
                        \o "Cannot read properties of undefined (reading 'format')")]

\* `await this.browser.newPage()` on the engine this.browser holds.
OpenPage(cr, b) == Issue([cr EXCEPT !.engine = b], "newPage", "newPage")

\* The render method between initialize() and newPage(), this.browser
\* being b.
AfterInitialize(cr, b) ==
    IF ~cr.req.present
        THEN Throw(cr, "Cannot destructure property 'mermaidCode' of 'request' as it is undefined.")
    ELSE IF b = 0
        THEN Throw(cr, IF IsPlotly(cr) THEN "Browser must be initialized"
                       ELSE "Browser not initialized")
    ELSE IF IsPlotly(cr) /\ IsDef(PlotlyPostAssert(cr.req))
        THEN Throw(cr, Val(PlotlyPostAssert(cr.req)))
    ELSE OpenPage(cr, b)

\* The render method from its entry to its first suspension: the checks
\* that precede initialize(), then `await this.initialize()` on
\* this.browser = b.  Without an engine initialize() awaits
\* puppeteer.launch(); with one it returns at once, and the render method,
\* suspended at its await, resumes in a later turn of the job queue.
RenderEnter(cr, b) ==
    IF IsPlotly(cr) /\ IsDef(PlotlyPreAssert(cr.req))
        THEN Throw(cr, Val(PlotlyPreAssert(cr.req)))
    ELSE IF b = 0 THEN Issue(cr, "launch", "launch")
    ELSE [cr EXCEPT !.pc = "initialized"]

\* A render method that loads the document whatever the code refers to.
AfterNewPageUnchecked(cr) == Issue(cr, "setContent", "setContent")

\* The render method between newPage() and setContent().
AfterNewPage(cr) ==
    IF IsPlotly(cr) /\ ~Includes(cr.req.code, "plotly-chart")
    THEN Throw(cr, "Plotly must contain id 'plotly-chart'")
    ELSE Issue(cr, "setContent", "setContent")

\* MermaidService after waitForFunction(() => diagram !== null): the poll
\* resolves once the marker is there and times out otherwise.
MermaidAfterPoll(cr, o) ==
    IF o.how = "failed" THEN Throw(cr, EngineError)
    ELSE IF o.how = "hung" THEN Throw(cr, TimeoutError(MermaidPollTimeout))
    ELSE IF ~Val(o.dom).chart
        THEN Throw([cr EXCEPT !.saw = o.dom], TimeoutError(MermaidPollTimeout))
    ELSE IF MethodOf(cr.kind) = "renderDiagram" /\ cr.req.format = "svg"
        THEN Issue([cr EXCEPT !.saw = o.dom], "svgQuery", "$")
    ELSE Issue([cr EXCEPT !.saw = o.dom], "elemQuery", "$")

\* PlotlyService after waitForFunction(() => ({hasChart, hasError,
\* errorText})): the predicate returns an object, which is truthy, so the
\* poll resolves on its first evaluation whatever the DOM holds.
PlotlyAfterPoll(cr, o) ==
    IF o.how = "failed" THEN Throw(cr, EngineError)
    ELSE IF o.how = "hung" THEN Throw(cr, TimeoutError(PlotlyPollTimeout))
    ELSE Issue([cr EXCEPT !.saw = o.dom], "jsonValue", "jsonValue")

\* PlotlyService after renderResult.jsonValue().
PlotlyAfterJsonValue(cr) ==
    IF Val(cr.saw).error
    THEN IF Val(cr.saw).errorText = ""
         THEN Throw(cr, "Error text must be provided when hasError is true")
         ELSE Throw(cr, "Plotly syntax error: " \o Val(cr.saw).errorText)
    ELSE IF cr.req.format = "svg" THEN Issue(cr, "svgQuery", "$")
    ELSE Issue(cr, "elemQuery", "$")

\* After page.$ of the svg element: o is "found", "null" or "failed".
AfterSvgQuery(cr, o) ==
    IF o = "failed" THEN Throw(cr, EngineError)
    ELSE IF o = "null"
        THEN Throw(cr, IF IsPlotly(cr) THEN "SVG element must be found for SVG format"
                       ELSE "SVG element not found")
    ELSE Issue(cr, "svgEval", "evaluate")

\* After page.evaluate(element => element.outerHTML): page.close() is
\* issued, the success result is returned once it completes.
AfterSvgEval(cr, ok) ==
    IF ~ok THEN Throw(cr, EngineError)
    ELSE Issue([cr EXCEPT !.pending =
                    Success(Payload(SvgMarkup), "svg", Undefined, Undefined)],
               "close", "close")

\* After page.$ of the container element.
AfterElemQuery(cr, o) ==
    IF o = "failed" THEN Throw(cr, EngineError)
    ELSE IF o = "null"
        THEN Throw(cr, IF IsPlotly(cr) THEN "Chart element must be found"
                       ELSE "Diagram element not found")
    ELSE Issue(cr, "bbox", "boundingBox")

\* filePath with the format's extension (PlotlyService).
PathWithExtension(filePath, format) ==
    LET extension == IF format = "jpg" THEN ".jpeg" ELSE "." \o format
    IN  IF EndsWith(filePath, extension) THEN filePath ELSE filePath \o extension

\* The ScreenshotOptions each render method builds.
ScreenshotOptions(cr, box) ==
    LET r == cr.req
        m == MethodOf(cr.kind)
    IN  [type |-> IF m = "renderDiagram" THEN "png"
                  ELSE IF r.format = "jpg" THEN "jpeg" ELSE "png",
         quality |-> IF m = "renderDiagram" THEN Undefined
                     ELSE IF m = "convertToImage" THEN r.quality
                     ELSE IF r.format = "jpg"
                          THEN Some(OrElse(r.quality, DefaultQuality))
                          ELSE Undefined,
         width |-> OrElse(r.width, box.width),
         height |-> OrElse(r.height, box.height),
         path |-> IF m = "renderPlotly" /\ IsDef(r.filePath) /\ Val(r.filePath) # ""
                  THEN Some(PathWithExtension(Val(r.filePath), r.format))
                  ELSE Undefined]

\* After element.boundingBox(): o.box is the box or null.
AfterBoundingBox(cr, o) ==
    IF o.how = "failed" THEN Throw(cr, EngineError)
    ELSE IF ~IsDef(o.box)
        THEN Throw(cr, IF IsPlotly(cr) THEN "Chart bounding box must be obtained"
                       ELSE "Could not get diagram dimensions")
    ELSE IF IsPlotly(cr) /\ ~(Val(o.box).width > 0)
        THEN Throw(cr, "Bounding box width must be positive")
    ELSE IF IsPlotly(cr) /\ ~(Val(o.box).height > 0)
        THEN Throw(cr, "Bounding box height must be positive")
    ELSE IF cr.req.format = "pdf"
        \* page.pdf({format: 'A4', printBackground: true})
        THEN Issue([cr EXCEPT !.box = o.box,
                              !.shot = [type |-> "pdf", quality |-> Undefined,
                                        width |-> 0, height |-> 0,
                                        path |-> Undefined]],
                   "capture", "pdf")
    ELSE Issue([cr EXCEPT !.box = o.box,
                          !.shot = ScreenshotOptions(cr, Val(o.box))],
               "capture", "screenshot")

\* What page.screenshot() refuses, before it asks the engine anything, as
\* the message of its error: a quality outside 0..100, a quality for a
\* type other than jpeg, a clip without a positive width and height.
\* page.pdf() checks none of these.
CaptureRefusal(shot) ==
    IF shot.type = "pdf" THEN Undefined
    ELSE IF IsDef(shot.quality) /\ (Val(shot.quality) < 0 \/ Val(shot.quality) > 100)
        THEN Some("Expected 'quality' (" \o ToString(Val(shot.quality))
                  \o ") to be between 0 and 100, inclusive.")
    ELSE IF IsDef(shot.quality) /\ shot.type # "jpeg"
        THEN Some(shot.type \o " screenshots do not support 'quality'.")
    ELSE IF shot.width <= 0 THEN Some("'width' in 'clip' must be positive.")
    ELSE IF shot.height <= 0 THEN Some("'height' in 'clip' must be positive.")
    ELSE Undefined

\* Uint8Array.prototype.toString(): the bytes in decimal, joined by commas
\* (a typed array's toString takes no encoding).
RECURSIVE JoinBytes(_)
JoinBytes(b) ==
    IF Len(b) = 0 THEN ""
    ELSE IF Len(b) = 1 THEN ToString(b[1])
    ELSE ToString(b[1]) \o "," \o JoinBytes(Tail(b))

\* After page.pdf() or page.screenshot(): the buffer is made a text, the
\* page closed, and the success result returned once the close completes.
\* PlotlyService wraps the buffer, Buffer.from(buffer).toString('base64');
\* MermaidService calls buffer.toString('base64') on what the engine gave,
\* which is a Buffer for a screenshot and a plain Uint8Array for a pdf.
AfterCapture(cr, ok) ==
    IF IsDef(CaptureRefusal(cr.shot)) THEN Throw(cr, Val(CaptureRefusal(cr.shot)))
    ELSE IF ~ok THEN Throw(cr, EngineError)
    ELSE IF IsPlotly(cr) /\ Len(CaptureBytes(cr.shot.type)) = 0
        THEN Throw(cr, "Buffer must not be empty")
    ELSE Issue([cr EXCEPT !.pending =
                    Success(Payload(IF ~IsPlotly(cr) /\ cr.shot.type = "pdf"
                                    THEN JoinBytes(CaptureBytes(cr.shot.type))
                                    ELSE Base64Encode(CaptureBytes(cr.shot.type))),
                            cr.req.format,
                            Some([width |-> OrElse(cr.req.width, Val(cr.box).width),
                                  height |-> OrElse(cr.req.height, Val(cr.box).height)]),
                            Undefined)],
               "close", "close")

\* A render method that never settles once it has closed its page.
AfterCloseNoReturn(cr, ok) == [cr EXCEPT !.pc = "closed"]

\* After page.close().
AfterClose(cr, ok) ==
    IF ok THEN Finish(cr, cr.pending) ELSE Throw(cr, EngineError)

\* -------------------------------------------------------------- process

\* The process at the start of main(): cleanupTempDir is running and waits
\* for ensureTempDir's mkdir; no signal handler is installed and there is
\* no listener (httpServer is null).
AtMain(transportType) ==
    [pc |-> "purgeMkdir", transport |-> transportType,
     listed |-> {}, todo |-> {}, attempted |-> {}, deletedCount |-> 0,
     purged |-> Undefined, purges |-> 1,
     handlers |-> FALSE, httpServer |-> FALSE, signalled |-> FALSE,
     closing |-> FALSE, closed |-> FALSE, timer |-> Undefined,
     elapsed |-> FALSE, exit |-> Undefined,
     terminating |-> {}, killedEngines |-> {}]

\* The process once main() has returned: the purge found nothing, the
\* handlers are installed, the listener listens and the transport serves.
Serving ==
    [AtMain("http") EXCEPT !.pc = "serving", !.purged = Some(Resolved(0)),
                             !.handlers = TRUE, !.httpServer = TRUE]

\* --------------------------------------------------------------- actions

Init ==
    /\ browser = [s \in Services |-> 0]
    /\ engines = {}
    /\ pages = {}
    /\ files = {}
    /\ allowedDirs \in AllowLists
    /\ proc = Serving
    /\ call = [c \in Calls |-> NoCall]

\* A renderer that keeps its page in a field of the service instead: every
\* call then works on the page opened last.
PageOfField(cr) ==
    IF pages = {} THEN cr.page
    ELSE CHOOSE p \in {pg.id : pg \in pages} : \A pg \in pages : pg.id <= p

\* The page a call's render method works on: its local `const page`.
PageOf(cr) == cr.page

\* The call's record after it operated on its page.
Touched(cr) == [cr EXCEPT !.touched = @ \cup {PageOf(cr)}]

\* An adapter that leaves every check to the renderer.
ToolAssertNothing(kind, req) == Undefined

\* The first assertion of a tool adapter's execute that fails.
ToolAssert(kind, req) ==
    IF kind = "renderDiagramTool" THEN DiagramToolAssert(req)
    ELSE IF kind = "renderPlotlyTool" THEN PlotlyToolAssert(req)
    ELSE Undefined

\* The RenderParams of a direct call of the router, as the result record
\* the delivery reads its data, format and size from.
RouterResult(req) == Success(Payload(Val(req.data)), req.format, Undefined, Undefined)

\* A caller invokes the entry point kind with req: execute (its
\* validation, then the render method) or the render method itself runs
\* up to its first suspension point.
Begin(c, kind, req) ==
    /\ call[c].pc = "idle"
    /\ call' = [call EXCEPT ![c] =
            IF kind = "handleRenderOutput"
            THEN handleRenderOutput([NoCall EXCEPT !.kind = kind, !.req = req,
                                                   !.pending = RouterResult(req)],
                                    RouterResult(req))
            ELSE IF IsDef(ToolAssert(kind, req))
            THEN ToolCatch([NoCall EXCEPT !.kind = kind, !.req = req],
                           Val(ToolAssert(kind, req)))
            ELSE RenderEnter([NoCall EXCEPT !.kind = kind, !.req = req,
                                            !.ops = {"render"}],
                             browser[ServiceOf(kind)])]
    /\ UNCHANGED env

\* initialize() from its entry, this.browser being b: without an engine it
\* awaits puppeteer.launch(), with one it returns.
initialize(cr, b) ==
    IF b = 0 THEN Issue(cr, "launch", "launch") ELSE Settle(cr, Void)

\* A caller invokes initialize() by itself (slots are taken in order).
BeginInitialize(c, kind) ==
    /\ call[c].pc = "idle"
    /\ \A d \in Calls : d > c => call[d].pc = "idle"
    /\ kind \in {"mermaidInitialize", "plotlyInitialize"}
    /\ call' = [call EXCEPT ![c] =
                  initialize([NoCall EXCEPT !.kind = kind], browser[ServiceOf(kind)])]
    /\ UNCHANGED env

\* puppeteer.launch() completes: initialize() stores the engine in
\* this.browser and returns, to its caller or to the render method, which
\* resumes in a later turn; a failed launch rejects initialize(), which the
\* render method catches.
LaunchDone(c) ==
    /\ call[c].pc = "launch"
    /\ \E ok \in BOOLEAN :
        IF ok
        THEN /\ engines' = engines \cup
                    {[id |-> c, service |-> ServiceOf(call[c].kind)]}
             /\ browser' = [browser EXCEPT ![ServiceOf(call[c].kind)] = c]
             /\ call' = [call EXCEPT ![c] =
                            IF call[c].kind \in {"mermaidInitialize", "plotlyInitialize"} THEN Settle(call[c], Void)
                            ELSE [call[c] EXCEPT !.pc = "initialized"]]
        ELSE /\ call' = [call EXCEPT ![c] =
                            IF call[c].kind \in {"mermaidInitialize", "plotlyInitialize"}
                            THEN [call[c] EXCEPT !.pc = "done",
                                                 !.out = Rejected(LaunchError)]
                            ELSE Throw(call[c], LaunchError)]
             /\ UNCHANGED <<engines, browser>>
    /\ UNCHANGED <<pages, files, allowedDirs, proc>>

\* The render method resumes after `await this.initialize()` and reads
\* this.browser, which holds what the continuations that ran in between
\* left there.
InitializeDone(c) ==
    /\ call[c].pc = "initialized"
    /\ call' = [call EXCEPT ![c] =
                  AfterInitialize(call[c], browser[ServiceOf(call[c].kind)])]
    /\ UNCHANGED env

\* The engine the call works on is open.
EngineOpen(cr) == \E e \in engines : e.id = cr.engine

\* Whether an operation on the call's engine or page can succeed: on an
\* engine that has been closed every operation fails.
Answers(c) == IF EngineOpen(call[c]) THEN BOOLEAN ELSE {FALSE}

\* browser.newPage() completes.
NewPageDone(c) ==
    /\ call[c].pc = "newPage"
    /\ \E ok \in Answers(c) :
        IF ok
        THEN /\ pages' = pages \cup {[id |-> c, engine |-> call[c].engine]}
             /\ call' = [call EXCEPT ![c] =
                            AfterNewPage([call[c] EXCEPT !.page = c])]
        ELSE /\ call' = [call EXCEPT ![c] = Throw(call[c], EngineError)]
             /\ UNCHANGED pages
    /\ UNCHANGED <<browser, engines, files, allowedDirs, proc>>

\* page.setContent(html) completes.
SetContentDone(c) ==
    /\ call[c].pc = "setContent"
    /\ \E ok \in Answers(c) :
        call' = [call EXCEPT ![c] =
                    IF ok THEN Issue(Touched(call[c]), "poll", "waitForFunction")
                    ELSE Throw(Touched(call[c]), EngineError)]
    /\ UNCHANGED env

\* page.waitForFunction(...) ends.
PollDone(c) ==
    /\ call[c].pc = "poll"
    /\ \E o \in PollOutcomes :
        /\ o.how = "evaluated" => EngineOpen(call[c])
        /\ o.how = "hung" => EngineOpen(call[c])
        /\ call' = [call EXCEPT ![c] =
                    IF IsPlotly(call[c]) THEN PlotlyAfterPoll(Touched(call[c]), o)
                       ELSE MermaidAfterPoll(Touched(call[c]), o)]
    /\ UNCHANGED env

\* renderResult.jsonValue() completes (PlotlyService).
JsonValueDone(c) ==
    /\ call[c].pc = "jsonValue"
    /\ \E ok \in Answers(c) :
        call' = [call EXCEPT ![c] =
                    IF ok THEN PlotlyAfterJsonValue(Touched(call[c]))
                    ELSE Throw(Touched(call[c]), EngineError)]
    /\ UNCHANGED env

\* page.$('.mermaid svg') or page.$('#plotly-chart svg') completes.
SvgQueryDone(c) ==
    /\ call[c].pc = "svgQuery"
    /\ \E o \in {"found", "null", "failed"} :
        /\ o # "failed" => EngineOpen(call[c])
        /\ call' = [call EXCEPT ![c] = AfterSvgQuery(Touched(call[c]), o)]
    /\ UNCHANGED env

\* page.evaluate(element => element.outerHTML, svgElement) completes.
SvgEvalDone(c) ==
    /\ call[c].pc = "svgEval"
    /\ \E ok \in Answers(c) :
        call' = [call EXCEPT ![c] = AfterSvgEval(Touched(call[c]), ok)]
    /\ UNCHANGED env

\* page.$('.diagram') or page.$('.chart-container') completes.
ElemQueryDone(c) ==
    /\ call[c].pc = "elemQuery"
    /\ \E o \in {"found", "null", "failed"} :
        /\ o # "failed" => EngineOpen(call[c])
        /\ call' = [call EXCEPT ![c] = AfterElemQuery(Touched(call[c]), o)]
    /\ UNCHANGED env

\* element.boundingBox() completes.
BoundingBoxDone(c) ==
    /\ call[c].pc = "bbox"
    /\ \E o \in {[how |-> "failed", box |-> Undefined]}
                \cup {[how |-> "ok", box |-> b] : b \in Boxes} :
        /\ o.how = "ok" => EngineOpen(call[c])
        /\ call' = [call EXCEPT ![c] = AfterBoundingBox(Touched(call[c]), o)]
    /\ UNCHANGED env

\* page.pdf() or page.screenshot() completes; a screenshot with a path
\* option also writes the image to that path.
CaptureDone(c) ==
    /\ call[c].pc = "capture"
    /\ \E ok \in {TRUE, FALSE} :
        /\ ok => ~IsDef(CaptureRefusal(call[c].shot)) /\ EngineOpen(call[c])
        /\ call' = [call EXCEPT ![c] = AfterCapture(Touched(call[c]), ok)]
        /\ files' = IF ok /\ IsDef(call[c].shot.path)
                    THEN WriteFile(files, Val(call[c].shot.path),
                                   Bytes(CaptureBytes(call[c].shot.type)))
                    ELSE files
    /\ UNCHANGED <<browser, engines, pages, allowedDirs, proc>>

\* page.close() completes.
CloseDone(c) ==
    /\ call[c].pc = "close"
    /\ \E ok \in Answers(c) :
        /\ call' = [call EXCEPT ![c] = AfterClose(Touched(call[c]), ok)]
        /\ pages' = IF ok THEN {pg \in pages : pg.id # PageOf(call[c])}
                    ELSE pages
    /\ UNCHANGED <<browser, engines, files, allowedDirs, proc>>

\* crypto.randomUUID(): a name no other call generates.
randomUUID(c) == "uuid-" \o ToString(c)

\* FileManager.ensureTempDir completes (a failure of mkdir is swallowed);
\* saveTempFile generates the name `${randomUUID()}.${format}`.
EnsureTempDirDone(c) ==
    /\ call[c].pc = "mkdir"
    /\ call' = [call EXCEPT ![c] =
            AfterEnsureTempDir(call[c],
                randomUUID(c) \o "." \o SaveFormat(call[c]), allowedDirs)]
    /\ UNCHANGED env

\* saveTempFile's writeFile completes.
SaveWriteDone(c) ==
    /\ call[c].pc = "saveWrite"
    /\ \E ok \in BOOLEAN :
        IF ok
        THEN /\ files' = WriteFile(files, Join(TEMP_DIR, call[c].filename),
                                   call[c].content)
             /\ call' = [call EXCEPT ![c] = AfterSaveTempFile(call[c])]
        ELSE /\ call' = [call EXCEPT ![c] =
                            Raise(call[c], "ENOSPC: no space left on device, write")]
             /\ UNCHANGED files
    /\ UNCHANGED <<browser, engines, pages, allowedDirs, proc>>

\* The filepath delivery's own writeFile completes.
AdapterWriteDone(c) ==
    /\ call[c].pc = "adapterWrite"
    /\ \E ok \in BOOLEAN :
        IF ok
        THEN /\ files' = WriteFile(files, Join(TEMP_DIR, call[c].filename),
                                   call[c].content)
             /\ call' = [call EXCEPT ![c] = AfterAdapterWrite(call[c])]
        ELSE /\ call' = [call EXCEPT ![c] =
                            Raise(call[c], "ENOSPC: no space left on device, write")]
             /\ UNCHANGED files
    /\ UNCHANGED <<browser, engines, pages, allowedDirs, proc>>

\* The caller has taken the settled result; the call is over.
Forget(c) ==
    /\ call[c].pc = "done"
    /\ call' = [call EXCEPT ![c] = [NoCall EXCEPT !.pc = "over"]]
    /\ UNCHANGED env

\* The steps of a render method.
RenderStep(c) ==
    \/ LaunchDone(c)
    \/ InitializeDone(c)
    \/ NewPageDone(c)
    \/ SetContentDone(c)
    \/ PollDone(c)
    \/ JsonValueDone(c)
    \/ SvgQueryDone(c)
    \/ SvgEvalDone(c)
    \/ ElemQueryDone(c)
    \/ BoundingBoxDone(c)
    \/ CaptureDone(c)
    \/ CloseDone(c)

\* The steps of a delivery.
DeliverStep(c) ==
    \/ EnsureTempDirDone(c)
    \/ SaveWriteDone(c)
    \/ AdapterWriteDone(c)

\* One caller, one call at a time, the calls taken in order: a call starts
\* when no other is in flight.  The last call ranges over every request,
\* the calls before it over the plain ones.
BeginNext(c) ==
    /\ \A d \in Calls \ {c} : call[d].pc \in {"idle", "over"}
    /\ \A d \in Calls : d > c => call[d].pc = "idle"
    /\ \E kind \in Kinds :
         \/ \E req \in IF c = MaxCalls THEN Requests(kind) ELSE PlainRequests(kind) :
               Begin(c, kind, req)
         \/ BeginInitialize(c, kind)

Next ==
    \E c \in Calls : BeginNext(c) \/ RenderStep(c) \/ DeliverStep(c) \/ Forget(c)

Spec == Init /\ [][Next]_vars

\* ---------------------------------------------------------------------
\* The two deliveries side by side: a caller sends the same format and
\* delivery mode to the diagram tool and to the chart tool, whose delivery
\* is the output router, in turn, and keeps the results.
\* ---------------------------------------------------------------------

\* The request of call c: the first call's has any format with any
\* delivery mode, every later one has the format and the delivery mode of
\* the call before.
PairRequest(c, base) ==
    IF c = 1
    THEN {[base EXCEPT !.format = f, !.output = o] :
            f \in Formats,
            o \in {Undefined} \cup {Some(t) : t \in OutputTypes}}
    ELSE {[base EXCEPT !.format = call[c - 1].req.format,
                       !.output = call[c - 1].req.output]}

\* The calls are taken in order, one at a time: the odd ones go to the
\* diagram tool; an even one goes to the chart tool, or hands the router
\* itself the payload and the format the diagram renderer returned to the
\* call before.
BeginPair(c) ==
    /\ \A d \in Calls \ {c} : call[d].pc \in {"idle", "done"}
    /\ \A d \in Calls : d > c => call[d].pc = "idle"
    /\ IF c % 2 = 1
       THEN \E req \in PairRequest(c, MermaidBase) : Begin(c, "renderDiagramTool", req)
       ELSE \/ \E req \in PairRequest(c, PlotlyBase) : Begin(c, "renderPlotlyTool", req)
            \/ /\ IsDef(call[c - 1].result) /\ Val(call[c - 1].result).success
               /\ Begin(c, "handleRenderOutput",
                        [MermaidBase EXCEPT
                            !.code = "",
                            !.data = Some(Val(Val(call[c - 1].result).data).text),
                            !.format = Val(call[c - 1].result).format,
                            !.output = call[c - 1].req.output])

NextPair ==
    \E c \in Calls : BeginPair(c) \/ RenderStep(c) \/ DeliverStep(c)

\* The process runs without an allow-list or with one that holds no
\* directory above the temp directory.
InitPair == Init /\ allowedDirs \in {<<>>, <<"/var/data", "/opt/out">>}

SpecPair == InitPair /\ [][NextPair]_vars

\* ---------------------------------------------------------------------
\* The life of the process: main() purges the temp directory, installs the
\* signal handlers and starts the listener and the transport; a signal
\* runs shutdown().  Every action is one continuation, run to its next
\* await or to the end of its callback.
\* ---------------------------------------------------------------------

\* The transports of config.transportType.
Transports == {"http", "stdio"}

\* The signals main() installs a handler for.
Signals == {"SIGINT", "SIGTERM", "SIGQUIT"}

\* The delay of shutdown's timer, in milliseconds.
GracePeriod == 5000

\* What an earlier run left in the temp directory.
OldNames == {"old-" \o ToString(i) \o ".png" : i \in 1..MaxEntries}

OldFiles == {[path |-> Join(TEMP_DIR, n), content |-> Text("old")] : n \in OldNames}

\* readdir(TEMP_DIR): the names of the entries of the directory.
readdir(fs) ==
    {SubSeq(f.path, Len(TEMP_DIR) + 2, Len(f.path)) :
        f \in {g \in fs : StartsWith(g.path, TEMP_DIR \o "/")}}

\* unlink(path).
unlink(fs, path) == {f \in fs : f.path # path}

Alive == ~IsDef(proc.exit)

\* process.exit(code): the process is gone, and its memory with it.
Exit(p, code) ==
    [p EXCEPT !.exit = Some([code |-> Some(code), signal |-> Undefined]),
              !.timer = Undefined]

\* The process ended by a signal it has no handler for: no exit code.
Killed(p, sig) ==
    [p EXCEPT !.exit = Some([code |-> Undefined, signal |-> Some(sig)]),
              !.timer = Undefined]

Gone == [c \in Calls |-> [NoCall EXCEPT !.pc = "over"]]

\* The hooks puppeteer.launch() installs when it has spawned an engine,
\* applied to the process p that main()'s own code made of a step (sig is
\* the signal the step handled, "" when none), to the engines engs open
\* before it and to the pending launches whose engine is spawned already
\* (hooked).  The signal handlers (handleSIGINT, handleSIGTERM; there is
\* none for SIGQUIT) run after the one main() installed: on SIGINT the
\* first engine is killed and the process exits with code 130; on SIGTERM
\* a browser.close() is started on each engine, which stays usable until
\* that close completes, and the process goes on.  The 'exit' hook runs in
\* every process.exit(): one dispatcher runs forEach over the engines'
\* handlers, in the order of the launches; each handler kills its engine
\* and thereby removes itself from the list the loop runs over, so that
\* the handler after it is skipped and every second engine survives the
\* process.  The process records which engines were killed.
DriverHooks(p, sig, engs, hooked) ==
    LET ExitSurvivors(s) == {i \in s : Cardinality({j \in s : j <= i}) % 2 = 0}
        ids == {e.id : e \in engs}
        interrupted == (ids \cup hooked) # {} /\ ~IsDef(p.exit) /\ sig = "SIGINT"
        q == IF interrupted THEN Exit(p, 130) ELSE p
        first == IF interrupted
                 THEN {i \in ids : \A j \in ids : i <= j} ELSE {}
        left == ExitSurvivors(ids \ first)
    IN  IF IsDef(q.exit)
        THEN [proc |-> [q EXCEPT !.killedEngines = @ \cup (ids \ left)],
              engines |-> {e \in engs : e.id \in left}]
        ELSE IF sig = "SIGTERM"
        THEN [proc |-> [q EXCEPT !.terminating = @ \cup ids \cup hooked],
              engines |-> engs]
        ELSE [proc |-> q, engines |-> engs]

\* main() after its await of cleanupTempDir: the three process.on, then
\* startHttpServer up to its promise, which assigns httpServer from
\* app.listen and waits for the listener's callback.
MainAfterPurge(p, outcome) ==
    [p EXCEPT !.purged = Some(outcome), !.todo = {}, !.handlers = TRUE,
              !.httpServer = TRUE, !.pc = "listen"]

\* cleanupTempDir's outer catch: the error is logged and 0 is returned.
cleanupCatch(p) == MainAfterPurge(p, Resolved(0))

\* cleanupTempDir: ensureTempDir settled (a failed mkdir is swallowed
\* there); readdir is issued.
PurgeMkdirDone ==
    /\ Alive
    /\ proc.pc = "purgeMkdir"
    /\ proc' = [proc EXCEPT !.pc = "purgeReaddir"]
    /\ UNCHANGED <<browser, engines, pages, files, allowedDirs, call>>

\* cleanupTempDir's loop, entered with the entries still to delete: the
\* unlink of one of them is issued, or the count is returned to main().
PurgeLoop(p, todo) ==
    IF todo = {}
    THEN MainAfterPurge(p, Resolved(p.deletedCount))
    ELSE [p EXCEPT !.todo = todo, !.pc = "purgeUnlink"]

\* readdir settled: the loop starts on what it listed; a failed readdir is
\* caught by the outer catch, which returns 0.
PurgeReaddirDone ==
    /\ Alive
    /\ proc.pc = "purgeReaddir"
    /\ \E ok \in BOOLEAN :
         proc' = IF ok
                 THEN PurgeLoop([proc EXCEPT !.listed = readdir(files)], readdir(files))
                 ELSE cleanupCatch(proc)
    /\ UNCHANGED <<browser, engines, pages, files, allowedDirs, call>>

\* A loop whose catch ends the sweep at the first failed unlink.
UnlinkFailedAborting(p, name) ==
    MainAfterPurge([p EXCEPT !.attempted = @ \cup {name}], Resolved(p.deletedCount))

\* The loop's catch: a failed unlink is logged and the loop goes on.
UnlinkFailed(p, name) ==
    PurgeLoop([p EXCEPT !.attempted = @ \cup {name}], p.todo \ {name})

\* One unlink settled.
PurgeUnlinkDone ==
    /\ Alive
    /\ proc.pc = "purgeUnlink"
    /\ \E name \in proc.todo : \E ok \in BOOLEAN :
         IF ok
         THEN /\ files' = unlink(files, Join(TEMP_DIR, name))
              /\ proc' = PurgeLoop([proc EXCEPT !.attempted = @ \cup {name},
                                                !.deletedCount = @ + 1],
                                   proc.todo \ {name})
         ELSE /\ files' = files
              /\ proc' = UnlinkFailed(proc, name)
    /\ UNCHANGED <<browser, engines, pages, allowedDirs, call>>

\* The listener's callback or its 'error' event: startHttpServer resolves
\* or rejects; with the stdio transport main() goes on to startStdioServer;
\* a rejection reaches main().catch, which exits with code 1.
ListenDone ==
    /\ Alive
    /\ proc.pc = "listen"
    /\ \E ok \in BOOLEAN :
         IF ok
         THEN /\ proc' = [proc EXCEPT !.pc = IF proc.transport = "http"
                                              THEN "serving" ELSE "connect"]
              /\ call' = call
         ELSE /\ proc' = Exit(proc, 1)
              /\ call' = Gone
    /\ UNCHANGED <<browser, engines, pages, files, allowedDirs>>

\* startStdioServer: server.connect(transport) settled.
StdioConnectDone ==
    /\ Alive
    /\ proc.pc = "connect"
    /\ \E ok \in BOOLEAN :
         IF ok
         THEN /\ proc' = [proc EXCEPT !.pc = "serving"]
              /\ call' = call
         ELSE /\ proc' = Exit(proc, 1)
              /\ call' = Gone
    /\ UNCHANGED <<browser, engines, pages, files, allowedDirs>>

\* shutdown(signal): with a listener, close it and arm the timer; without
\* one, exit at once.
shutdown(p) ==
    IF p.httpServer
    THEN [p EXCEPT !.closing = TRUE, !.timer = Some(GracePeriod)]
    ELSE Exit(p, 0)

\* A signal is delivered: the handler main() installed runs shutdown();
\* before main() installed it the signal ends the process.
OnSignal(p, sig) ==
    IF p.handlers THEN shutdown(p) ELSE Killed(p, sig)

Signal ==
    /\ Alive
    /\ \E sig \in Signals : \E hooked \in SUBSET {c \in Calls : call[c].pc = "launch"} :
         LET after == DriverHooks(OnSignal([proc EXCEPT !.signalled = TRUE], sig),
                                 sig, engines, hooked)
         IN  /\ proc' = after.proc
             /\ engines' = after.engines
    /\ pages' = {pg \in pages : \E e \in engines' : e.id = pg.engine}
    /\ call' = IF IsDef(proc'.exit) THEN Gone ELSE call
    /\ UNCHANGED <<browser, files, allowedDirs>>

\* The browser.close() that the driver's SIGTERM handler started on an
\* engine completes: the engine is closed, and its pages with it.
DriverCloseDone ==
    /\ Alive
    /\ \E e \in engines :
         /\ e.id \in proc.terminating
         /\ engines' = engines \ {e}
         /\ pages' = {pg \in pages : pg.engine # e.id}
         /\ proc' = [proc EXCEPT !.terminating = @ \ {e.id}]
    /\ UNCHANGED <<browser, files, allowedDirs, call>>

\* The callback of httpServer.close: the listener has closed (every
\* connection has ended), and the process exits.
ListenerClosed ==
    /\ Alive
    /\ proc.closing
    /\ LET after == DriverHooks(Exit([proc EXCEPT !.closed = TRUE], 0),
                                "", engines, {})
       IN  /\ proc' = after.proc
           /\ engines' = after.engines
    /\ pages' = {pg \in pages : \E e \in engines' : e.id = pg.engine}
    /\ call' = Gone
    /\ UNCHANGED <<browser, files, allowedDirs>>

\* The callback of shutdown's timer.
GraceElapsed ==
    /\ Alive
    /\ IsDef(proc.timer)
    /\ LET after == DriverHooks(Exit([proc EXCEPT !.elapsed = TRUE], 1),
                                "", engines, {})
       IN  /\ proc' = after.proc
           /\ engines' = after.engines
    /\ pages' = {pg \in pages : \E e \in engines' : e.id = pg.engine}
    /\ call' = Gone
    /\ UNCHANGED <<browser, files, allowedDirs>>

\* A transport that takes requests from the start of the process.
AcceptingEarly == Alive

\* The transport takes requests: it is connected.  httpServer.close()
\* refuses new connections only; a request that arrives on a connection
\* opened before is served until the process exits.
Accepting ==
    /\ Alive
    /\ proc.pc = "serving"

\* The requests of the served calls: one of each tool, each written to the
\* temp directory.
MainRequests(kind) ==
    CASE kind = "renderDiagramTool" -> {[MermaidBase EXCEPT !.output = Some("filepath")]}
      [] kind = "renderPlotlyTool" -> {[PlotlyBase EXCEPT !.output = Some("link")]}
      [] OTHER -> {}

\* A request arrives at the transport (one caller, one call at a time).
BeginMain(c) ==
    /\ Accepting
    /\ \A d \in Calls \ {c} : call[d].pc \in {"idle", "over"}
    /\ \A d \in Calls : d > c => call[d].pc = "idle"
    /\ \E kind \in Kinds : \E req \in MainRequests(kind) : Begin(c, kind, req)

NextMain ==
    \/ PurgeMkdirDone
    \/ PurgeReaddirDone
    \/ PurgeUnlinkDone
    \/ ListenDone
    \/ StdioConnectDone
    \/ Signal
    \/ DriverCloseDone
    \/ ListenerClosed
    \/ GraceElapsed
    \/ \E c \in Calls :
         Alive /\ (BeginMain(c) \/ RenderStep(c) \/ DeliverStep(c) \/ Forget(c))

InitMain ==
    /\ browser = [s \in Services |-> 0]
    /\ engines = {}
    /\ pages = {}
    /\ files \in {{}, OldFiles}
    /\ allowedDirs = <<>>
    /\ \E t \in Transports : proc = AtMain(t)
    /\ call = [c \in Calls |-> NoCall]

SpecMain == InitMain /\ [][NextMain]_vars

\* The event loop runs a timer's callback once its delay has elapsed.
SpecMainFair == SpecMain /\ WF_vars(GraceElapsed)

\* ---------------------------------------------------------------------
\* Concurrent callers.  The render methods are async: a second call may
\* enter a renderer while the first one waits for the engine.  Every step
\* of RenderStep is one continuation of a call, run to its next await.
\* ---------------------------------------------------------------------

\* The requests of the concurrent callers: direct calls of the render
\* methods, one of each service, a vector one and a raster one.
ConcRequests(kind) ==
    CASE kind = "renderDiagram" -> {MermaidBase}
      [] kind = "renderPlotly" -> {[PlotlyBase EXCEPT !.format = "png"]}
      [] OTHER -> {}

\* The process runs without an allow-list (delivery is not involved).
InitConc == Init /\ allowedDirs = <<>>

\* Two callers: a call may start while another call is in flight or waits
\* for its caller to take the result, so that two calls at a time run side
\* by side (slots are taken in order).
BeginTwo(c) ==
    /\ \A d \in Calls : d > c => call[d].pc = "idle"
    /\ Cardinality({d \in Calls : call[d].pc \notin {"idle", "over"}}) <= 1
    /\ \E kind \in Kinds : \E req \in ConcRequests(kind) : Begin(c, kind, req)

NextTwo ==
    \E c \in Calls : BeginTwo(c) \/ RenderStep(c) \/ Forget(c)

SpecTwo == InitConc /\ [][NextTwo]_vars

\* Every operation a render method awaits on the engine settles (the
\* driver answers or gives up after its own timeout), and the event loop
\* then runs the method's continuation.
SpecTwoFair == SpecTwo /\ \A c \in Calls : WF_vars(RenderStep(c))

\* ---------------------------------------------------------------------
\* cleanup().  A renderer's cleanup() closes the engine this.browser holds
\* and then clears the handle; like the render methods it is async, so
\* render calls and other cleanup() calls run while its close is pending.
\* ---------------------------------------------------------------------

\* The engine an earlier call of initialize() launched for the direct
\* caller's MermaidService (the one of its PlotlyService is Earlier + 1):
\* its name is none of the names the calls of a behaviour give.
Earlier == MaxCalls + 1

\* cleanup() from its entry to its first suspension, this.browser being b:
\* with a handle it awaits browser.close(), without one it returns.
cleanup(cr, b) ==
    IF b # 0
    THEN Issue([cr EXCEPT !.engine = b], "browserClose", "browser.close")
    ELSE Settle(cr, Void)

\* cleanup() is called; it may be at any time (slots are taken in order).
BeginCleanup(c, kind) ==
    /\ call[c].pc = "idle"
    /\ \A d \in Calls : d > c => call[d].pc = "idle"
    /\ IsCleanup(kind)
    /\ call' = [call EXCEPT ![c] =
                  cleanup([NoCall EXCEPT !.kind = kind], browser[ServiceOf(kind)])]
    /\ UNCHANGED env

\* browser.close() settles.  When it resolves the engine and its pages are
\* gone and cleanup() sets this.browser to null, whatever the handle holds
\* by then; when it rejects, cleanup() rejects and leaves the handle.  A
\* close of an engine that is already closed resolves or rejects.
BrowserCloseDone(c) ==
    /\ call[c].pc = "browserClose"
    /\ \E ok \in BOOLEAN :
        IF ok
        THEN /\ engines' = {e \in engines : e.id # call[c].engine}
             /\ pages' = {pg \in pages : pg.engine # call[c].engine}
             /\ browser' = [browser EXCEPT ![ServiceOf(call[c].kind)] = 0]
             /\ call' = [call EXCEPT ![c] = Settle(call[c], Void)]
        ELSE /\ call' = [call EXCEPT ![c].pc = "done",
                                     ![c].out = Rejected(EngineError)]
             /\ UNCHANGED <<engines, pages, browser>>
    /\ UNCHANGED <<files, allowedDirs, proc>>

\* A render call may start when no other render call is in flight (slots
\* are taken in order).
BeginRender(c) ==
    /\ \A d \in Calls : d > c => call[d].pc = "idle"
    /\ \A d \in Calls \ {c} : IsRender(call[d].kind) => call[d].pc = "done"
    /\ \E kind \in Kinds : \E req \in ConcRequests(kind) : Begin(c, kind, req)

NextCleanup ==
    \E c \in Calls :
        \/ BeginRender(c)
        \/ \E kind \in Kinds : BeginCleanup(c, kind) \/ BeginInitialize(c, kind)
        \/ RenderStep(c)
        \/ BrowserCloseDone(c)
        \/ Forget(c)

\* Each of the direct caller's renderers has no engine yet or holds the
\* engine an earlier initialize() launched.
InitCleanup ==
    /\ \E held \in SUBSET {"mermaid", "plotly"} :
         LET id(s) == IF s = "mermaid" THEN Earlier ELSE Earlier + 1
         IN  /\ browser = [s \in Services |-> IF s \in held THEN id(s) ELSE 0]
             /\ engines = {[id |-> id(s), service |-> s] : s \in held}
    /\ pages = {}
    /\ files = {}
    /\ allowedDirs = <<>>
    /\ proc = Serving
    /\ call = [c \in Calls |-> NoCall]

SpecCleanup == InitCleanup /\ [][NextCleanup]_vars

\* ---------------------------------------------------------------------
\* Properties
\* ---------------------------------------------------------------------

\* The call was invoked and its result not yet taken by the caller.
Started(c) == call[c].pc \notin {"idle", "over"}

\* The call's promise has settled.
Returned(c) == call[c].pc = "done"

\* The call's render method has returned its result.
RenderReturned(c) == IsDef(call[c].result)

\* The call is inside its render method.
InRender(c) == Started(c) /\ "render" \in call[c].ops /\ ~RenderReturned(c)

\* The operations a render method performs on the engine and on its page.
EngineOps ==
    {"launch", "newPage", "setContent", "waitForFunction", "jsonValue", "$",
     "evaluate", "boundingBox", "pdf", "screenshot", "close"}

\* Loading the document, polling the DOM and extracting the output.
PageOps == EngineOps \ {"launch", "newPage", "close"}

\* The call created no engine and no page.
NoEngineUse(c) ==
    /\ call[c].ops \cap EngineOps = {}
    /\ \A e \in engines : e.id # c
    /\ \A pg \in pages : pg.id # c

\* The request breaks one of the stated preconditions of kind's renderer.
Malformed(kind, req) ==
    \/ Len(Trim(req.code)) = 0
    \/ req.format \notin {"svg", "png", "jpg", "pdf"}
    \/ /\ ServiceOf(kind) \in {"mermaidTool", "mermaid"}
       /\ req.theme \notin {"default", "base", "dark", "forest", "neutral", "null"}
    \/ IsDef(req.quality) /\ (Val(req.quality) < 1 \/ Val(req.quality) > 100)
    \/ IsDef(req.width) /\ Val(req.width) <= 0
    \/ IsDef(req.height) /\ Val(req.height) <= 0
    \/ IsDef(req.fontSize) /\ Val(req.fontSize) <= 0
    \/ IsDef(req.maxTextSize) /\ Val(req.maxTextSize) <= 0

\* C1: every call of a tool adapter's execute resolves with an object that
\* carries a boolean success and the format of the request; the promise is
\* never rejected, whether validation, the renderer or the delivery failed.
C1_ExecuteNeverRejects ==
    \A c \in Calls :
        (IsTool(call[c].kind) /\ Returned(c)) =>
            /\ call[c].out.settled = "resolved"
            /\ call[c].out.value.success \in BOOLEAN
            /\ call[c].out.value.format = call[c].req.format

\* C2: every render call on a renderer resolves and is never rejected, and
\* exactly one of data and error is populated in its result: a success has
\* non-empty data and no error, a failure a non-empty error and no data.
C2_RenderResultShape ==
    \A c \in Calls :
        /\ (IsRender(call[c].kind) /\ Returned(c)) =>
                /\ call[c].out.settled = "resolved"
                /\ call[c].result = Some(call[c].out.value)
        /\ (IsTool(call[c].kind) /\ Returned(c) /\ "render" \in call[c].ops) =>
                RenderReturned(c)
        /\ RenderReturned(c) =>
                LET r == Val(call[c].result)
                IN  IF r.success
                    THEN /\ IsDef(r.data) /\ Val(r.data).text # ""
                         /\ ~IsDef(r.error)
                    ELSE /\ IsDef(r.error) /\ Val(r.error) # ""
                         /\ ~IsDef(r.data)

\* C3: every page a render call opened is closed by the time the render
\* call returns, on success and on failure; so with no render call in flight
\* no page is open.
C3_PagesClosedOnReturn ==
    /\ \A c \in Calls : RenderReturned(c) => \A pg \in pages : pg.id # c
    /\ (\A c \in Calls : ~InRender(c)) => pages = {}

\* C4: for one renderer instance the engine is launched at most once under
\* any interleaving of render calls, and all its calls use that one engine.
C4_EngineLaunchedOnce ==
    \A s \in Services :
        /\ Cardinality({e \in engines : e.service = s}) <= 1
        /\ \A c, d \in Calls :
            (/\ ServiceOf(call[c].kind) = s /\ ServiceOf(call[d].kind) = s
             /\ call[c].kind # "" /\ call[d].kind # ""
             /\ call[c].engine # 0 /\ call[d].engine # 0) =>
                call[c].engine = call[d].engine

\* C5: a render call loads, polls and captures only the page it opened
\* itself, under any interleaving of concurrent render calls.
C5_OwnPageOnly ==
    \A c \in Calls :
        /\ call[c].touched \subseteq {c}
        /\ "waitForFunction" \in call[c].ops => call[c].touched = {c}

\* Two calls of one renderer are in flight, each past the load of its own
\* open page.
C5_Witness ==
    \E c, d \in Calls :
        /\ c # d
        /\ call[c].kind = call[d].kind
        /\ call[c].pc = "poll" /\ call[d].pc = "svgQuery"
        /\ call[c].touched = {c} /\ call[d].touched = {d}
        /\ {pg.id : pg \in pages} = {c, d}

\* C6: an execute called with a blank source, a format or theme outside
\* its enumeration, a quality outside 1..100 or a non-positive width,
\* height, fontSize or maxTextSize returns a failure without invoking the
\* renderer: the call launches no engine and opens no page.
C6_InvalidNeverRendered ==
    \A c \in Calls :
        (/\ IsTool(call[c].kind) /\ Started(c)
         /\ Malformed(call[c].kind, call[c].req)) =>
            /\ Returned(c)
            /\ call[c].out.settled = "resolved"
            /\ ~call[c].out.value.success
            /\ "render" \notin call[c].ops
            /\ NoEngineUse(c)

\* An execute called with quality 101 has returned, after an earlier call
\* launched the engine.
C6_Witness ==
    \E c \in Calls :
        /\ IsTool(call[c].kind) /\ Returned(c)
        /\ call[c].req.quality = Some(101)
        /\ ~call[c].out.value.success
        /\ browser[ServiceOf(call[c].kind)] # 0

\* C7: a tool call whose output is outside {link, filepath, raw} is
\* rejected before any rendering attempt: the adapter returns a failure
\* without invoking the renderer, launching the engine or opening a page.
C7_OutputCheckedFirst ==
    \A c \in Calls :
        (/\ IsTool(call[c].kind) /\ Started(c)
         /\ IsDef(call[c].req.output)
         /\ Val(call[c].req.output) \notin {"link", "filepath", "raw"}) =>
            /\ Returned(c)
            /\ ~call[c].out.value.success
            /\ "render" \notin call[c].ops
            /\ NoEngineUse(c)

\* C8: a render call whose request violates a precondition fails without
\* any engine interaction: no engine is launched and no page opened before
\* the failure is returned.
C8_PreconditionsFailFast ==
    \A c \in Calls :
        (/\ IsRender(call[c].kind) /\ Started(c)
         /\ Malformed(call[c].kind, call[c].req)) =>
            /\ Returned(c)
            /\ ~call[c].out.value.success
            /\ NoEngineUse(c)

\* A call of renderPlotly (direct or from the adapter) whose plotlyCode
\* lacks the container id.
LacksContainerId(c) ==
    /\ MethodOf(call[c].kind) = "renderPlotly"
    /\ "render" \in call[c].ops
    /\ call[c].req.present
    /\ ~Includes(call[c].req.code, "plotly-chart")

\* C9 (as stated): renderPlotly called with plotlyCode that lacks the id
\* 'plotly-chart' returns a failure whose error says the code must contain
\* that id, and loads, polls and captures nothing.
C9_AsStated ==
    \A c \in Calls :
        LacksContainerId(c) =>
            /\ call[c].ops \cap PageOps = {}
            /\ RenderReturned(c) =>
                /\ ~Val(call[c].result).success
                /\ Val(call[c].result).error =
                        Some("Plotly must contain id 'plotly-chart'")

\* C9 (amended): renderPlotly called with plotlyCode that lacks the id
\* 'plotly-chart' returns a failure and loads, polls and captures nothing;
\* the error says the code must contain that id whenever the call got as
\* far as the check, that is, its page was opened.
C9_ContainerIdChecked ==
    \A c \in Calls :
        LacksContainerId(c) =>
            /\ call[c].ops \cap PageOps = {}
            /\ RenderReturned(c) => ~Val(call[c].result).success
            /\ (RenderReturned(c) /\ call[c].page # 0) =>
                    Val(call[c].result).error =
                        Some("Plotly must contain id 'plotly-chart'")

\* renderPlotly has opened its page and failed on the container id.
C9_Witness ==
    \E c \in Calls :
        /\ LacksContainerId(c) /\ RenderReturned(c)
        /\ call[c].page # 0
        /\ "newPage" \in call[c].ops
        /\ Val(call[c].result).error = Some("Plotly must contain id 'plotly-chart'")

\* C10: a render call returns success only if the completed-render marker
\* was in its page's DOM when the poll ended; a poll that ends with neither
\* marker present gives a failure.
C10_SuccessOnlyWithMarker ==
    \A c \in Calls :
        (RenderReturned(c) /\ Val(call[c].result).success) =>
            /\ IsDef(call[c].saw)
            /\ Val(call[c].saw).chart

\* C11: whenever the error marker is in the page's DOM at the end of the
\* poll, the render call returns a failure whose error carries the
\* extracted error text; it never returns success.
C11_ErrorMarkerFails ==
    \A c \in Calls :
        (RenderReturned(c) /\ IsDef(call[c].saw) /\ Val(call[c].saw).error) =>
            /\ ~Val(call[c].result).success
            /\ Includes(Val(Val(call[c].result).error), Val(call[c].saw).errorText)

\* C12: on every successful render the result's format is the requested
\* format, its data is non-empty, and size is present exactly when the
\* requested format is not svg.
C12_SuccessShape ==
    \A c \in Calls :
        (RenderReturned(c) /\ Val(call[c].result).success) =>
            LET r == Val(call[c].result)
            IN  /\ r.format = call[c].req.format
                /\ IsDef(r.data) /\ Val(r.data).text # ""
                /\ IsDef(r.size) <=> call[c].req.format # "svg"

\* The call is an adapter's execute that has returned a success.
Delivered(c) ==
    /\ IsTool(call[c].kind) /\ Returned(c)
    /\ call[c].out.settled = "resolved"
    /\ call[c].out.value.success

\* The payload the call's render method returned.
RenderedData(c) == Val(Val(call[c].result).data).text

\* The payload in the encoding a file of the format holds: the markup text
\* for svg, the decoded bytes otherwise.
Encoded(format, data) ==
    IF format = "svg" THEN Text(data) ELSE Bytes(Base64Decode(data))

\* C13: after a successful delivery with output=filepath the returned data
\* is the full path of a file in the temp directory whose content is the
\* payload in its format's encoding: the markup text for svg, the
\* base64-decoded bytes for png, jpg and pdf.
C13_FilepathHoldsPayload ==
    \A c \in Calls :
        (Delivered(c) /\ call[c].req.output = Some("filepath")) =>
            LET path == Val(call[c].out.value.data).text
            IN  /\ StartsWith(path, TEMP_DIR \o "/")
                /\ \E f \in files :
                    /\ f.path = path
                    /\ f.content = Encoded(call[c].req.format, RenderedData(c))

\* C14: after a successful delivery with output=link, or with no output
\* given, the returned data is http://localhost:<port>/static/<uuid>.<format>,
\* output_type is 'link', and the file of that generated name exists in the
\* static directory, holding the svg text or the base64-decoded bytes.
C14_LinkServesPayload ==
    \A c \in Calls :
        (Delivered(c) /\ call[c].req.output \in {Undefined, Some("link")}) =>
            LET name == randomUUID(c) \o "." \o call[c].req.format
            IN  /\ call[c].out.value.output_type = Some("link")
                /\ Val(call[c].out.value.data).text =
                        "http://localhost:" \o ToString(ServerPort)
                            \o "/static/" \o name
                /\ \E f \in files :
                    /\ f.path = TEMP_DIR \o "/" \o name
                    /\ f.content = Encoded(call[c].req.format, RenderedData(c))

\* A png rendered with no output given has been delivered as a link.
C14_Witness ==
    \E c \in Calls :
        /\ Delivered(c)
        /\ call[c].req.output = Undefined
        /\ call[c].req.format = "png"
        /\ call[c].out.value.output_type = Some("link")
        /\ \E f \in files : f.content.enc = "binary"

\* C15: a delivery with output=raw does no filesystem interaction (no temp
\* directory creation, no file written) and returns the renderer's payload,
\* format and size unchanged, with output_type 'raw'.
C15_RawTouchesNoFile ==
    \A c \in Calls :
        (/\ IsTool(call[c].kind) /\ Started(c) /\ RenderReturned(c)
         /\ call[c].req.output = Some("raw")) =>
            /\ call[c].ops \cap {"mkdir", "writeFile"} = {}
            /\ \A f \in files : ~StartsWith(f.path, TEMP_DIR \o "/" \o randomUUID(c))
            /\ Val(call[c].result).success =>
                /\ Returned(c)
                /\ call[c].out =
                    Resolved([Val(call[c].result) EXCEPT !.output_type = Some("raw")])

\* A png with an explicit width was rendered and delivered raw, while the
\* temp directory already holds the file of an earlier call.
C15_Witness ==
    \E c \in Calls :
        /\ Delivered(c)
        /\ call[c].req.output = Some("raw")
        /\ call[c].req.format = "png"
        /\ IsDef(call[c].out.value.size)
        /\ call[c].out.value.output_type = Some("raw")
        /\ files # {}

\* The call is a delivery (an adapter's execute or a direct call of the
\* router) that has resolved with a success.
DeliverySucceeded(c) ==
    /\ IsTool(call[c].kind) \/ call[c].kind = "handleRenderOutput"
    /\ Returned(c)
    /\ call[c].out.settled = "resolved"
    /\ call[c].out.value.success

\* C16: the output_type of every successful delivery is the requested
\* delivery mode, link when none is given, for every format the router
\* accepts: a request for link or filepath yields that mode or a failure,
\* never output_type 'raw' or another mode.
C16_ModeAsRequested ==
    \A c \in Calls :
        (/\ DeliverySucceeded(c)
         /\ call[c].req.output \in {Undefined} \cup {Some(t) : t \in OutputTypes}) =>
            call[c].out.value.output_type =
                IF IsDef(call[c].req.output) THEN call[c].req.output
                ELSE Some("link")

\* The path lies inside the directory dir: it is dir or below it.
Inside(path, dir) == path = dir \/ StartsWith(path, dir \o "/")

InsideAllowed(path) ==
    \E i \in 1..Len(allowedDirs) : Inside(path, allowedDirs[i])

\* The call has been through saveTempFile's allow-list check.
PathChecked(c) == Returned(c) /\ "mkdir" \in call[c].ops

\* The message of a settled call, resolved as a failure or rejected.
ErrorOf(c) == Val(call[c].out.value.error)

\* C17: with a non-empty allow-list FileManager.saveTempFile writes a file
\* only if its path lies inside one of the allowed directories, and
\* otherwise throws an error naming the allowed directories and writes
\* nothing; with an empty allow-list every path is accepted.
C17_AllowListGuardsWrites ==
    /\ \A f \in files :
        (StartsWith(f.path, TEMP_DIR \o "/") /\ allowedDirs # <<>>) =>
            InsideAllowed(f.path)
    /\ \A c \in Calls :
        PathChecked(c) =>
            IF allowedDirs = <<>> \/ InsideAllowed(TEMP_DIR \o "/" \o randomUUID(c))
            THEN "writeFile" \in call[c].ops
            ELSE /\ "writeFile" \notin call[c].ops
                 /\ ~(call[c].out.settled = "resolved" /\ call[c].out.value.success)
                 /\ Includes(ErrorOf(c), "is not in allowed directories: "
                                            \o JoinList(allowedDirs))

\* ---------------------------------------------------------------------
\* The startup purge and the shutdown
\* ---------------------------------------------------------------------

\* cleanupTempDir has returned to main().
PurgeOver == IsDef(proc.purged)

\* The entries the purge listed that are no longer in the temp directory.
PurgeRemoved == proc.listed \ readdir(files)

\* C18: cleanupTempDir attempts to delete every entry it listed (while
\* the loop runs, every listed entry has been attempted or is still to
\* come, whatever failed before), it never rejects, and it returns exactly
\* the number of entries it deleted: at most the number listed, and all of
\* them exactly when no listed entry remains.
C18_PurgeSweepsAll ==
    /\ proc.pc = "purgeUnlink" =>
         /\ proc.attempted \cup proc.todo = proc.listed
         /\ proc.todo # {}
    /\ PurgeOver =>
         /\ proc.attempted = proc.listed
         /\ Val(proc.purged).settled = "resolved"
         /\ Val(proc.purged).value = Cardinality(PurgeRemoved)
         /\ Val(proc.purged).value <= Cardinality(proc.listed)
         /\ (Val(proc.purged).value = Cardinality(proc.listed))
               <=> (proc.listed \cap readdir(files) = {})

\* A purge that listed several entries, failed on one and deleted another.
C18_Witness ==
    /\ PurgeOver
    /\ Cardinality(proc.listed) >= 2
    /\ Val(proc.purged).value >= 1
    /\ Val(proc.purged).value < Cardinality(proc.listed)

\* A call has written a file of its own into the temp directory.
TempWritten == \E f \in files : f \notin OldFiles /\ StartsWith(f.path, TEMP_DIR \o "/")

\* main() has started the listener: the handlers are installed and
\* app.listen has been called (or the process has exited since).
ServerStarted ==
    /\ proc.handlers
    /\ proc.httpServer
    /\ proc.pc \in {"listen", "connect", "serving"}

\* The purge left something behind: readdir failed or an unlink did.
PurgeFailed == PurgeOver /\ readdir(files) \cap OldNames # {}

\* C19: while the startup purge runs no transport accepts requests, no
\* tool call is handled and no temp file is written; once the purge is
\* over, whatever its outcome, main() has gone on to start the server; and
\* from then on the purge never runs again: its record stays as it is and
\* no file is deleted.
C19_PurgeBeforeServe ==
    /\ [](~PurgeOver =>
            /\ ~Accepting
            /\ ~proc.httpServer
            /\ \A c \in Calls : ~Started(c)
            /\ ~TempWritten)
    /\ [](PurgeOver => ServerStarted)
    /\ [][PurgeOver =>
            /\ PurgeOver'
            /\ proc'.purged = proc.purged
            /\ proc'.attempted = proc.attempted
            /\ proc'.deletedCount = proc.deletedCount
            /\ proc'.purges = proc.purges
            /\ \A f \in files : f \in files']_vars

\* After a purge that failed, the transport served a call that wrote its
\* image into the temp directory.
C19_Witness ==
    /\ PurgeFailed
    /\ proc.pc = "serving"
    /\ TempWritten
    /\ \E c \in Calls : Delivered(c)

\* The process has exited with this code.
ExitedWith(code) == ~Alive /\ Val(proc.exit).code = Some(code)

\* C20: after a termination signal the process eventually exits, and it
\* exits with code 0 at once when there is no listener, with code 0 when
\* the listener's close has completed, or with code 1 when the 5 seconds
\* of the timer have elapsed before the close completed.
C20_SignalExits ==
    /\ proc.signalled ~> ~Alive
    /\ [](proc.signalled /\ ~proc.httpServer => ExitedWith(0))
    /\ [](proc.signalled /\ ~Alive =>
            \/ ExitedWith(0) /\ ~proc.httpServer
            \/ ExitedWith(0) /\ proc.closed
            \/ ExitedWith(1) /\ proc.elapsed /\ ~proc.closed)

\* C21: when the process has exited after a termination signal, every
\* engine a renderer launched has been closed before the exit: none is
\* left open, and none was still running when process.exit() was called,
\* to be ended only by the kill of the driver's exit hook.
C21_EnginesClosedOnShutdown ==
    (proc.signalled /\ ~Alive) => engines = {} /\ proc.killedEngines = {}

\* ---------------------------------------------------------------------
\* cleanup()
\* ---------------------------------------------------------------------

\* The call is a cleanup() that has asked its engine to close.
Closes(c) == IsCleanup(call[c].kind) /\ "browser.close" \in call[c].ops

\* C22: a cleanup() that finds a null handle closes nothing and returns,
\* and however the cleanup() calls on a renderer overlap, no engine is
\* asked to close more than once.
C22_CleanupIdempotent ==
    /\ \A c \in Calls :
         IsCleanup(call[c].kind) /\ Started(c) /\ call[c].engine = 0 =>
            /\ call[c].ops = {}
            /\ call[c].out = Resolved(Void)
    /\ \A c, d \in Calls :
         Closes(c) /\ Closes(d) /\ call[c].engine = call[d].engine => c = d

\* A cleanup() has asked the engine to close.
CloseStarted(engine) == \E d \in Calls : Closes(d) /\ call[d].engine = engine

\* C30: a render call that works on an engine works on one that is open
\* and that no cleanup() has asked to close, for as long as the call is in
\* flight; and every engine that is open is the one its renderer's handle
\* holds.
C30_NoUseOfClosingEngine ==
    /\ \A c \in Calls :
         IsRender(call[c].kind) /\ InRender(c) /\ call[c].engine # 0 =>
            /\ EngineOpen(call[c])
            /\ ~CloseStarted(call[c].engine)
    /\ \A e \in engines : browser[e.service] = e.id

\* ---------------------------------------------------------------------
\* The adapters' failures and the two deliveries
\* ---------------------------------------------------------------------

\* C23: every failure result a tool adapter returns carries an error
\* message that starts with the adapter's prefix.
C23_FailurePrefixed ==
    \A c \in Calls :
        (IsTool(call[c].kind) /\ Returned(c)
            /\ call[c].out.settled = "resolved" /\ ~call[c].out.value.success) =>
        /\ IsDef(call[c].out.value.error)
        /\ StartsWith(Val(call[c].out.value.error), ToolPrefix(call[c].kind))

\* The call's delivery ended on a failed write to the disk.
FsFailed(c) ==
    /\ Returned(c) /\ ~call[c].out.value.success
    /\ EndsWith(Val(call[c].out.value.error),
                "ENOSPC: no space left on device, write")

\* The contents of the files the call's delivery wrote.
Written(c) ==
    {f.content : f \in {g \in files :
        StartsWith(g.path, Join(TEMP_DIR, randomUUID(c)) \o ".")}}

\* Call c went through the diagram adapter's delivery and call d through
\* the router, with the same payload, format and delivery mode, and the
\* disk answered both alike.
SameDelivery(c, d) ==
    /\ call[c].kind = "renderDiagramTool"
    /\ call[d].kind \in {"renderPlotlyTool", "handleRenderOutput"}
    /\ Returned(c) /\ Returned(d)
    /\ RenderReturned(c) /\ Val(call[c].result).success
    /\ IsTool(call[d].kind) => RenderReturned(d) /\ Val(call[d].result).success
    /\ call[c].pending.data = call[d].pending.data
    /\ call[c].pending.format = call[d].pending.format
    /\ call[c].req.output = call[d].req.output
    /\ ~FsFailed(c) /\ ~FsFailed(d)

\* C24: for the same rendered payload, format and delivery mode the
\* delivery of the diagram adapter and the output router end alike: both
\* succeed or both fail, with the same output_type, the same kind of data
\* and the same content written to their files.
C24_DeliveriesAgree ==
    \A c, d \in Calls :
        SameDelivery(c, d) =>
            /\ call[c].out.settled = "resolved"
            /\ IsTool(call[d].kind) => call[d].out.settled = "resolved"
            /\ call[c].out.value.success = call[d].out.value.success
            /\ call[c].out.value.output_type = call[d].out.value.output_type
            /\ IsDef(call[c].out.value.data) = IsDef(call[d].out.value.data)
            /\ IsDef(call[c].out.value.data) =>
                 Val(call[c].out.value.data).tag = Val(call[d].out.value.data).tag
            /\ Written(c) = Written(d)

\* The diagram renderer's pdf payload, which the diagram adapter and the
\* router each wrote to a file and returned as a path.
C24_Witness ==
    \E c, d \in Calls :
        /\ SameDelivery(c, d)
        /\ Delivered(c)
        /\ call[d].out.settled = "resolved" /\ call[d].out.value.success
        /\ call[c].req.format = "pdf"
        /\ call[c].req.output = Some("filepath")
        /\ Written(c) # {} /\ Written(d) # {}
        /\ Val(call[c].out.value.data).tag = "path"

\* ---------------------------------------------------------------------
\* The capture step
\* ---------------------------------------------------------------------

\* The bounding box the call measured has no width or no height.
ZeroBox(c) ==
    /\ IsDef(call[c].box)
    /\ Val(call[c].box).width = 0 \/ Val(call[c].box).height = 0

\* C25: a render call that measured a bounding box without width or
\* without height attempts no screenshot and no PDF capture and returns a
\* failure (as does one whose box is missing), and every successful result
\* that reports a size reports a positive width and a positive height.
C25_ZeroBoxFails ==
    \A c \in Calls :
        /\ ZeroBox(c) => call[c].ops \cap {"pdf", "screenshot"} = {}
        /\ (ZeroBox(c) /\ RenderReturned(c)) => ~Val(call[c].result).success
        /\ (RenderReturned(c) /\ Val(call[c].result).success
                /\ IsDef(Val(call[c].result).size)) =>
              /\ Val(Val(call[c].result).size).width > 0
              /\ Val(Val(call[c].result).size).height > 0

\* The call has taken or is taking a screenshot for a raster format.
RasterCapture(c) ==
    /\ "screenshot" \in call[c].ops
    /\ call[c].req.format \in {"png", "jpg"}

\* C26: a screenshot for a raster request is taken as JPEG exactly when
\* the requested format is jpg and as PNG exactly when it is png, and it
\* is given a quality only when the format is jpg.
C26_CaptureTypeAndQuality ==
    \A c \in Calls :
        RasterCapture(c) =>
            /\ call[c].shot.type = "jpeg" <=> call[c].req.format = "jpg"
            /\ call[c].shot.type = "png" <=> call[c].req.format = "png"
            /\ IsDef(call[c].shot.quality) => call[c].req.format = "jpg"

\* ---------------------------------------------------------------------
\* Render calls side by side
\* ---------------------------------------------------------------------

\* The render method of the call is suspended at an await: on
\* initialize() or on an operation on the engine.
Suspended(c) ==
    call[c].pc \in {"launch", "initialized", "newPage", "setContent", "poll",
                    "jsonValue", "svgQuery", "svgEval", "elemQuery", "bbox",
                    "capture", "close"}

\* The poll of the call has ended and its render method has not returned.
PastPoll(c) == Suspended(c) /\ "waitForFunction" \in call[c].ops /\ call[c].pc # "poll"

\* C27: whatever the other calls wait for, a suspended render call can
\* take its next step (no call holds a lock while it is suspended), and a
\* render call whose poll has ended, on a terminal condition or on its
\* timeout, eventually returns a result.
C27_NoLockAndReturns ==
    /\ [](\A c \in Calls : Suspended(c) => ENABLED RenderStep(c))
    /\ \A c \in Calls : PastPoll(c) ~> RenderReturned(c)

\* A call waits in its poll while a later call on the same renderer has
\* opened its own page and returned a success.
C27_Witness ==
    \E c, d \in Calls :
        /\ c < d
        /\ call[c].pc = "poll"
        /\ call[d].kind = call[c].kind
        /\ RenderReturned(d) /\ Val(call[d].result).success
        /\ call[d].touched = {d}

\* ---------------------------------------------------------------------
\* The files a call leaves
\* ---------------------------------------------------------------------

\* The call is a delivery (an adapter's execute or a direct call of the
\* router) that has ended with a failure.
DeliveryFailed(c) ==
    /\ IsTool(call[c].kind) \/ call[c].kind = "handleRenderOutput"
    /\ Returned(c)
    /\ call[c].out.settled = "rejected" \/ ~call[c].out.value.success

\* C28: a delivery that has failed has left no file of its own in the temp
\* directory.
C28_FailedDeliveryLeavesNoFile ==
    \A c \in Calls : DeliveryFailed(c) => Written(c) = {}

\* C29: every file on the disk is one a call wrote under a generated name
\* in the temp directory, at a path the allow-list check accepts: no file
\* is at a path a caller chose.
C29_OnlyUuidFilesInTempDir ==
    \A f \in files :
        /\ \E c \in Calls : StartsWith(f.path, Join(TEMP_DIR, randomUUID(c)) \o ".")
        /\ validateAllowedPath(f.path, allowedDirs)

====
